---- MODULE Spec2Model ----
(***************************************************************************)
(* StreamForge sidecar server: the in-memory Alert Queue                   *)
(* (server/alerts/queue.js) together with the parts of the Socket.io hub   *)
(* and of the HTTP test routes that emit on the /alerts namespace.         *)
(*                                                                         *)
(* JavaScript values are encoded so that every comparison is well typed:   *)
(*   - an instance id / alertId is a positive integer; 0 stands for a      *)
(*     falsy id (undefined, null);                                         *)
(*   - currentAlert === null is the record NoAlert (id 0);                 *)
(*   - fallbackTimer === null is the timer handle 0;                       *)
(*   - amount and duration_ms are naturals, 0 being the falsy number;      *)
(*   - undefined and null field values are the strings Undefined and Null. *)
(***************************************************************************)
EXTENDS Integers, Sequences, FiniteSets, TLC

\* ------------------------------------------------------------------------
\* Bounds of the model
\* ------------------------------------------------------------------------

\* number of instances enqueueAlert accepts in one behaviour
MaxAlerts == 3

\* ------------------------------------------------------------------------
\* Program constants
\* ------------------------------------------------------------------------

Undefined == "<undefined>"

Null == "<null>"

REQUIRED_FIELDS == <<"type", "username">>

DEFAULT_DURATION_MS == 5000

FALLBACK_BUFFER_MS == 1000

DEFAULT_CONFIG == [message_template |-> "{username} triggered an alert!",
                   duration_ms |-> DEFAULT_DURATION_MS]

DEFAULT_MESSAGES == [follow |-> "{username} just followed!",
                     subscribe |-> "{username} just subscribed!",
                     cheer |-> "{username} cheered {amount} bits!",
                     raid |-> "{username} is raiding with {amount} viewers!",
                     donation |-> "{username} donated ${amount}!"]

\* ------------------------------------------------------------------------
\* Inputs
\* ------------------------------------------------------------------------

NoConfig ==
  [hasDuration |-> FALSE, duration_ms |-> 0, message_template |-> "",
   _variation_id |-> Undefined]

\* an object passed as alertData
AlertObject(type, username, amount, hasConfig, config) ==
  [truthy |-> TRUE, typeof |-> "object", type |-> type, username |-> username,
   amount |-> amount, hasConfig |-> hasConfig, config |-> config]

\* a value passed as alertData that is not a (non-null) object
NonObject(truthy, typeof) ==
  [truthy |-> truthy, typeof |-> typeof, type |-> Undefined,
   username |-> Undefined, amount |-> 0, hasConfig |-> FALSE, config |-> NoConfig]

FieldValues == {Undefined, Null, ""}

\* objects without a config in which a required field is undefined, null or
\* empty
PlainObjects ==
  {AlertObject(t, "alice", 0, FALSE, NoConfig) : t \in FieldValues}
    \cup {AlertObject("follow", u, 0, FALSE, NoConfig) : u \in FieldValues}

\* objects with both required fields and a config: a follow of duration
\* 1000 ms, and a cheer with an amount, a zero duration_ms (as an alert row
\* saved with duration_ms 0 yields) and its own message template
ConfiguredObjects ==
  {AlertObject("follow", "alice", 0, TRUE,
               [hasDuration |-> TRUE, duration_ms |-> 1000, message_template |-> "",
                _variation_id |-> Undefined]),
   AlertObject("cheer", "bob", 100, TRUE,
               [hasDuration |-> TRUE, duration_ms |-> 0, message_template |-> "bits!",
                _variation_id |-> Undefined])}

\* undefined, null and a non-empty string
NonObjects ==
  {NonObject(FALSE, "undefined"), NonObject(FALSE, "object"), NonObject(TRUE, "string")}

AlertInputs == PlainObjects \cup ConfiguredObjects \cup NonObjects

\* the overlay clients that may connect to /alerts
OverlayClients == {"obs"}

\* alert:done payloads: {alertId: a} with a an id (known, stale or unknown)
\* or falsy, and {id: a} as the legacy overlay sends it (alertId undefined)
AckPayloads ==
  {[alertId |-> a, id |-> 0] : a \in 0..(MaxAlerts + 1)}
    \cup {[alertId |-> 0, id |-> 1]}

\* ------------------------------------------------------------------------
\* State
\* ------------------------------------------------------------------------

VARIABLES
  queue,            \* queue.js: const queue = []
  currentAlert,     \* queue.js: let currentAlert
  isProcessing,     \* queue.js: let isProcessing
  fallbackTimer,    \* queue.js: let fallbackTimer (timer handle, 0 = null)
  alertsNamespace,  \* queue.js: let alertsNamespace (TRUE once init() ran)
  timers,           \* the event loop's pending setTimeout timers
  nextTimer,        \* next timer handle setTimeout returns
  nextId,           \* next id uuidv4() returns
  alertsSockets,    \* the sockets connected to /alerts (namespace.sockets)
  emitted,          \* history: alert:trigger events the queue emitted on /alerts
  wire,             \* the last message emitted on the /alerts namespace
  accepted,         \* history: instances accepted by enqueueAlert, in order
  completed,        \* history: terminal events, in order
  cleared,          \* history: ids removed by clearQueue
  ret,              \* return value of the last queue operation (0 = null/undefined)
  lastOp,           \* history: the last operation
  db,               \* the SQLite database: the alerts and alert_variations tables
  found,            \* history: the last call of the alert database module
  matchCall,        \* history: the last call of doesVariationMatch
  templates,        \* the SQLite database: the alert_templates table
  response,         \* history: the last response of the template routes
  migrations,       \* the SQLite database: the rows of _migrations, in rowid order
  schema,           \* the SQLite database: the scripts whose effects are committed
  foreignKeys,      \* the connection's foreign_keys pragma
  migrationRuns,    \* history: the calls of runMigrations
  pc,               \* index.js: where the process is (load .. exited)
  stdout,           \* the lines written to standard output up to the startup banner
  busyPorts,        \* the ports of the host other processes hold
  probes,           \* history: the ports isPortAvailable tested, with the answer
  port,             \* index.js: the port under test, then the port passed to listen
  serverPort,       \* index.js: let serverPort (0 = null)
  dbOpen,           \* database.js: let db (TRUE while a connection is held)
  exitCode,         \* the code process.exit was called with (-1 = running)
  shutdownSteps,    \* history: what the shutdown calls closed, in order
  forceTimers,      \* the pending force-exit timers of shutdown
  clientCounts,     \* index.js: const clientCounts
  connected,        \* the connected sockets of each namespace
  wsStatus,         \* history: the last body of GET /api/ws/status
  broadcast,        \* the messages the last handler of the hub emitted
  received,         \* history: the last event a client sent to the hub
  eventLog,         \* the SQLite database: the rows of event_log
  logResult,        \* history: the last call of the event logger
  logAttempts       \* history: the events logEvent was called for

vars == <<queue, currentAlert, isProcessing, fallbackTimer, alertsNamespace,
          timers, nextTimer, nextId, alertsSockets, emitted, accepted,
          completed, cleared, wire, ret, lastOp, db, found, matchCall,
          templates,
          response, migrations, schema, foreignKeys, migrationRuns, pc, stdout,
          busyPorts, probes, port, serverPort, dbOpen, exitCode, shutdownSteps,
          forceTimers, clientCounts, connected, wsStatus, broadcast, received,
          eventLog,
          logResult, logAttempts>>

\* the variables of the alert database module
dbVars == <<db, found, matchCall>>

\* the variables of the template module and its routes
tplVars == <<templates, response>>

\* the variables of the migration runner
migVars == <<migrations, schema, foreignKeys, migrationRuns>>

\* the variables of the process: startup, port discovery and shutdown
procVars == <<pc, stdout, busyPorts, probes, port, serverPort, dbOpen, exitCode,
              shutdownSteps, forceTimers>>

\* the variables of the WebSocket hub
hubVars == <<clientCounts, connected, wsStatus, broadcast, received>>

\* the variables of the event logger
logVars == <<eventLog, logResult, logAttempts>>

\* the variables of the database startup, the process, the hub and the
\* event logger
sysVars == <<migVars, procVars, hubVars, logVars>>

NoAlert == [id |-> 0, alertConfigId |-> Null, type |-> Null, username |-> Null,
            displayName |-> Null, amount |-> 0, config |-> DEFAULT_CONFIG]

\* the part of the state the queue's functions read and write
QueueState ==
  [queue |-> queue, currentAlert |-> currentAlert, isProcessing |-> isProcessing,
   fallbackTimer |-> fallbackTimer, timers |-> timers, nextTimer |-> nextTimer,
   emitted |-> emitted, wire |-> wire]

\* ------------------------------------------------------------------------
\* Alert Queue (server/alerts/queue.js)
\* ------------------------------------------------------------------------

\* REQUIRED_FIELDS.filter(field => alertData[field] === undefined || === null || === '')
MissingFields(alertData) ==
  SelectSeq(REQUIRED_FIELDS,
            LAMBDA field :
              LET v == IF field = "type" THEN alertData.type ELSE alertData.username
              IN  v = Undefined \/ v = Null \/ v = "")

validateAlertData_NoEmptyCheck(alertData) ==
  IF ~alertData.truthy \/ alertData.typeof # "object"
    THEN [valid |-> FALSE, missing |-> REQUIRED_FIELDS]
    ELSE LET missing ==
               SelectSeq(REQUIRED_FIELDS,
                         LAMBDA field :
                           LET v == IF field = "type" THEN alertData.type
                                    ELSE alertData.username
                           IN  v = Undefined \/ v = Null)
         IN  [valid |-> Len(missing) = 0, missing |-> missing]

validateAlertData(alertData) ==
  IF ~alertData.truthy \/ alertData.typeof # "object"
    THEN [valid |-> FALSE, missing |-> REQUIRED_FIELDS]
    ELSE LET missing == MissingFields(alertData)
         IN  [valid |-> Len(missing) = 0, missing |-> missing]

\* Object.assign({}, DEFAULT_CONFIG, alertData.config || {}) followed by the
\* type-specific default message template; a _variation_id the given config
\* carries is copied with the other fields
BuildConfig(alertData) ==
  LET given == IF alertData.hasConfig THEN alertData.config ELSE NoConfig
      base == [duration_ms |-> IF given.hasDuration THEN given.duration_ms
                               ELSE DEFAULT_CONFIG.duration_ms,
               message_template |-> IF given.message_template # ""
                                      THEN given.message_template
                                      ELSE DEFAULT_CONFIG.message_template,
               _variation_id |-> given._variation_id]
  IN  IF given.message_template = "" /\ alertData.type \in DOMAIN DEFAULT_MESSAGES
        THEN [base EXCEPT !.message_template = DEFAULT_MESSAGES[alertData.type]]
        ELSE base

\* the alert object enqueueAlert builds (id = alertData.id || uuidv4(); no
\* caller in the repository supplies alertData.id)
BuildAlert(alertData, id) ==
  [id |-> id, alertConfigId |-> Null, type |-> alertData.type,
   username |-> alertData.username, displayName |-> alertData.username,
   amount |-> alertData.amount, config |-> BuildConfig(alertData)]

\* currentAlert.config?.duration_ms || DEFAULT_CONFIG.duration_ms, plus the buffer
FallbackDelay(alert) ==
  (IF alert.config.duration_ms # 0 THEN alert.config.duration_ms
   ELSE DEFAULT_CONFIG.duration_ms) + FALLBACK_BUFFER_MS

\* alertsNamespace.emit('alert:trigger', payload), as the sockets of /alerts see it
Emission(source, payload) ==
  [event |-> "alert:trigger", source |-> source, payload |-> payload]

\* namespace.emit(event, payload) on /alerts: the message goes on the wire,
\* and the queue's own emissions are kept as history
Emit(s, m) ==
  [s EXCEPT !.wire = m,
            !.emitted = IF m.source = "queue" THEN Append(s.emitted, m) ELSE s.emitted]

\* setTimeout(callback, delay): a new pending timer of the event loop
NewTimer(s, delay) ==
  [handle |-> s.nextTimer, delay |-> delay, forId |-> s.currentAlert.id]

processQueue_NoFlag(s) ==
  IF s.isProcessing \/ Len(s.queue) = 0
    THEN s
    ELSE LET s1 == [s EXCEPT !.currentAlert = Head(s.queue), !.queue = Tail(s.queue)]
             s2 == IF alertsNamespace
                     THEN Emit(s1, Emission("queue", s1.currentAlert))
                     ELSE s1
             t == NewTimer(s2, FallbackDelay(s2.currentAlert))
         IN  [s2 EXCEPT !.fallbackTimer = t.handle,
                        !.timers = s2.timers \cup {t},
                        !.nextTimer = s2.nextTimer + 1]

processQueue_Lifo(s) ==
  IF s.isProcessing \/ Len(s.queue) = 0
    THEN s
    ELSE LET s1 == [s EXCEPT !.isProcessing = TRUE,
                             !.currentAlert = s.queue[Len(s.queue)],
                             !.queue = SubSeq(s.queue, 1, Len(s.queue) - 1)]
             s2 == IF alertsNamespace
                     THEN Emit(s1, Emission("queue", s1.currentAlert))
                     ELSE s1
             t == NewTimer(s2, FallbackDelay(s2.currentAlert))
         IN  [s2 EXCEPT !.fallbackTimer = t.handle,
                        !.timers = s2.timers \cup {t},
                        !.nextTimer = s2.nextTimer + 1]

processQueue_NoBuffer(s) ==
  IF s.isProcessing \/ Len(s.queue) = 0
    THEN s
    ELSE LET s1 == [s EXCEPT !.isProcessing = TRUE,
                             !.currentAlert = Head(s.queue),
                             !.queue = Tail(s.queue)]
             s2 == IF alertsNamespace
                     THEN Emit(s1, Emission("queue", s1.currentAlert))
                     ELSE s1
             t == NewTimer(s2, FallbackDelay(s2.currentAlert) - FALLBACK_BUFFER_MS)
         IN  [s2 EXCEPT !.fallbackTimer = t.handle,
                        !.timers = s2.timers \cup {t},
                        !.nextTimer = s2.nextTimer + 1]

\* processQueue(): guard, pop the front, emit, arm the fallback timer
processQueue(s) ==
  IF s.isProcessing \/ Len(s.queue) = 0
    THEN s
    ELSE LET s1 == [s EXCEPT !.isProcessing = TRUE,
                             !.currentAlert = Head(s.queue),
                             !.queue = Tail(s.queue)]
             s2 == IF alertsNamespace
                     THEN Emit(s1, Emission("queue", s1.currentAlert))
                     ELSE s1
             t == NewTimer(s2, FallbackDelay(s2.currentAlert))
         IN  [s2 EXCEPT !.fallbackTimer = t.handle,
                        !.timers = s2.timers \cup {t},
                        !.nextTimer = s2.nextTimer + 1]

\* clearTimeout(handle)
ClearTimeout(pending, handle) == {t \in pending : t.handle # handle}

resetAndProcessNext_NoAdvance(s) ==
  LET s1 == IF s.fallbackTimer # 0
              THEN [s EXCEPT !.timers = ClearTimeout(s.timers, s.fallbackTimer),
                             !.fallbackTimer = 0]
              ELSE s
  IN  [s1 EXCEPT !.currentAlert = NoAlert, !.isProcessing = FALSE]

resetAndProcessNext_KeepTimer(s) ==
  LET s1 == [s EXCEPT !.fallbackTimer = 0]
      s2 == [s1 EXCEPT !.currentAlert = NoAlert, !.isProcessing = FALSE]
  IN  IF Len(s2.queue) > 0 THEN processQueue(s2) ELSE s2

\* resetAndProcessNext(): cancel the timer, reset, process the next alert
resetAndProcessNext(s) ==
  LET s1 == IF s.fallbackTimer # 0
              THEN [s EXCEPT !.timers = ClearTimeout(s.timers, s.fallbackTimer),
                             !.fallbackTimer = 0]
              ELSE s
      s2 == [s1 EXCEPT !.currentAlert = NoAlert, !.isProcessing = FALSE]
  IN  IF Len(s2.queue) > 0 THEN processQueue(s2) ELSE s2

enqueueAlert_NoAdvance(s, alertData, id) ==
  IF ~validateAlertData(alertData).valid
    THEN [state |-> s, ret |-> 0]
    ELSE [state |-> [s EXCEPT !.queue = Append(s.queue, BuildAlert(alertData, id))],
          ret |-> id]

\* enqueueAlert(alertData) on state s, uuidv4() returning id:
\* the new state and the return value
enqueueAlert(s, alertData, id) ==
  IF ~validateAlertData(alertData).valid
    THEN [state |-> s, ret |-> 0]
    ELSE LET s1 == [s EXCEPT !.queue = Append(s.queue, BuildAlert(alertData, id))]
         IN  [state |-> IF ~s1.isProcessing THEN processQueue(s1) ELSE s1,
              ret |-> id]

clearQueue_NoTruncate(s) ==
  [state |-> s, ret |-> Len(s.queue)]

clearQueue_Reset(s) ==
  [state |-> [s EXCEPT !.queue = <<>>, !.currentAlert = NoAlert,
                       !.isProcessing = FALSE],
   ret |-> Len(s.queue)]

\* clearQueue(): the new state and the return value
clearQueue(s) ==
  [state |-> [s EXCEPT !.queue = <<>>], ret |-> Len(s.queue)]

onAlertDone_NoIdCheck(s, data) ==
  IF s.currentAlert.id = 0 THEN s ELSE resetAndProcessNext(s)

\* onAlertDone(data)
onAlertDone(s, data) ==
  LET alertId == data.alertId
  IN  IF s.currentAlert.id = 0
        THEN s
        ELSE IF alertId # 0 /\ alertId # s.currentAlert.id
               THEN s
               ELSE resetAndProcessNext(s)

\* whether onAlertDone(data) reaches resetAndProcessNext in state s
AckAccepted(s, data) == onAlertDone(s, data) # s

\* ------------------------------------------------------------------------
\* Hub and HTTP test emitters (server/index.js)
\* ------------------------------------------------------------------------

\* the payload emitTestAlert() builds when the request has no body
TestAlertPayload ==
  [id |-> 0, alertConfigId |-> Null, type |-> "follow", username |-> "TestUser123",
   displayName |-> Null, amount |-> 0, config |-> DEFAULT_CONFIG]

\* payloads a dashboard client sends with alert:trigger
DashboardPayloads ==
  {[id |-> 0, alertConfigId |-> Null, type |-> "cheer", username |-> "dashboard",
    displayName |-> Null, amount |-> 100, config |-> DEFAULT_CONFIG]}

\* nothing was emitted on /alerts yet
NoEmission == [event |-> "none", source |-> "none", payload |-> NoAlert]

\* ------------------------------------------------------------------------
\* Alert database (server/alerts/database.js)
\*
\* A row is a record; SQL NULL in a text column is the string Null, in
\* min_amount it is NullAmount. Row ids are strings. An event's amount is a
\* natural, AmountUndefined when eventData has no amount and AmountNull when
\* it is null.
\* ------------------------------------------------------------------------

\* min_amount IS NULL
NullAmount == -1

\* eventData.amount === undefined
AmountUndefined == -1

\* eventData.amount === null
AmountNull == -2

\* fields of a variation that override the parent's
OverrideFields ==
  {"message_template", "sound_path", "sound_volume", "image_path",
   "animation_in", "animation_out", "custom_css"}

AlertIds == {"a1", "a2"}

VariationIds == {"v1", "v2"}

\* a row of the alerts table; the columns no operation here reads carry the
\* defaults createAlert() gives them
AlertRow(id, type, enabled, created_at, min_amount) ==
  [id |-> id, type |-> type, name |-> id, enabled |-> enabled,
   message_template |-> IF id = "a1" THEN "{username} cheered!" ELSE "{username}!",
   duration_ms |-> IF id = "a1" THEN 3000 ELSE 4000,
   animation_in |-> "fadeIn", animation_out |-> "fadeOut",
   sound_path |-> Null, sound_volume |-> "0.8", image_path |-> Null,
   font_family |-> "Arial", text_color |-> "#FFFFFF", custom_css |-> Null,
   min_amount |-> min_amount, tts_enabled |-> 0,
   created_at |-> created_at, _variation_id |-> Undefined,
   _variation_name |-> Undefined]

\* a row of the alert_variations table; v1 overrides the message template
\* and the sound, v2 the message template and the entry animation
VariationRow(id, parent, condition_type, condition_value, enabled, priority, created_at) ==
  [id |-> id, parent_alert_id |-> parent, name |-> id,
   condition_type |-> condition_type, condition_value |-> condition_value,
   message_template |-> IF id = "v1" THEN "{username} cheered BIG!" ELSE "{username} tier 2!",
   sound_path |-> IF id = "v1" THEN "big.mp3" ELSE Null,
   sound_volume |-> Null, image_path |-> Null,
   animation_in |-> IF id = "v1" THEN Null ELSE "bounceIn",
   animation_out |-> Null, custom_css |-> Null,
   enabled |-> enabled, priority |-> priority, created_at |-> created_at]

\* findMatchingAlert's null result
NoRow == AlertRow(Null, Null, 0, 0, NullAmount)

\* the alerts tables of the snapshots: a1 is a cheer alert, a2 (when it
\* exists) a cheer or follow alert created with a1 or after it
AlertTables ==
  LET A1 == {AlertRow("a1", "cheer", e, 1, m) : e \in {0, 1}, m \in {NullAmount, 50}}
      A2 == {AlertRow("a2", t, 1, c, NullAmount) : t \in {"cheer", "follow"}, c \in {1, 2}}
  IN  {{x} : x \in A1} \cup {{x, y} : x \in A1, y \in A2}

\* the alert_variations tables of the snapshots: v1 (amount >= 100) belongs
\* to a1; v2, created before v1, belongs to a1 or a2
VariationTables ==
  LET V1 == {VariationRow("v1", "a1", "amount", "100", e, p, 2) : e \in {0, 1}, p \in {0, 1}}
      V2 == {VariationRow("v2", "a1", ct[1], ct[2], 1, p, 1) :
               ct \in {<<"amount", "10">>, <<"tier", "2">>}, p \in {0, 1}}
              \cup {VariationRow("v2", "a2", "tier", "2", 1, 0, 1)}
  IN  {{}} \cup {{x} : x \in V1} \cup {{y} : y \in V2} \cup {{x, y} : x \in V1, y \in V2}

\* the snapshots: initDatabase() switched foreign_keys on, and every
\* variation has its parent
Snapshots ==
  {d \in [alerts : AlertTables, variations : VariationTables, foreign_keys : {TRUE}] :
     \A v \in d.variations : \E a \in d.alerts : a.id = v.parent_alert_id}

\* the events: cheers with and without amount and tier, and a follow
EventData(amount, tier) == [amount |-> amount, tier |-> tier, custom_value |-> Undefined]

Events ==
  {[type |-> "cheer", data |-> EventData(a, t)] :
     a \in {AmountUndefined, 5, 60, 100}, t \in {Undefined, "2"}}
    \cup {[type |-> "follow", data |-> EventData(AmountNull, Null)]}

\* the sequences that enumerate the set S once each
Perms(S) ==
  {f \in [1..Cardinality(S) -> S] : \A i, j \in DOMAIN f : i # j => f[i] # f[j]}

\* the orders in which the storage may yield rows that compare equal under
\* an ORDER BY
ScanOrders ==
  [alerts : Perms(AlertIds), variations : Perms(VariationIds)]

Pos(seq, x) == CHOOSE i \in DOMAIN seq : seq[i] = x

\* Number(x) of an event's amount: Number(null) is 0
NumberOfAmount(x) == IF x = AmountNull THEN 0 ELSE x

\* Number(s) of a condition_value (a TEXT column)
NumberOfText(s) ==
  CASE s = "100" -> 100
    [] s = "10" -> 10
    [] s = "2" -> 2
    [] OTHER -> 0

\* String(x)
String(x) ==
  CASE x = Undefined -> "undefined"
    [] x = Null -> "null"
    [] OTHER -> x

\* the sequence of the rows of the set rows in which r comes before q
\* whenever <<r, q>> is in the relation before
Sorted(rows, before) ==
  CHOOSE f \in Perms(rows) : \A i, j \in DOMAIN f : i < j => <<f[j], f[i]>> \notin before

\* SELECT * FROM alerts WHERE type = ? AND enabled = 1 ORDER BY created_at ASC;
\* rows of equal created_at come in the order scan yields them
SelectEnabledAlerts(d, scan, eventType) ==
  Sorted({a \in d.alerts : a.type = eventType /\ a.enabled = 1},
         {<<r, q>> \in d.alerts \X d.alerts :
            \/ r.created_at < q.created_at
            \/ /\ r.created_at = q.created_at
               /\ Pos(scan.alerts, r.id) < Pos(scan.alerts, q.id)})

\* SELECT * FROM alert_variations WHERE parent_alert_id = ? AND enabled = 1
\* ORDER BY priority DESC; rows of equal priority come in the order scan
\* yields them
SelectEnabledVariations(d, scan, parentId) ==
  Sorted({v \in d.variations : v.parent_alert_id = parentId /\ v.enabled = 1},
         {<<r, q>> \in d.variations \X d.variations :
            \/ r.priority > q.priority
            \/ /\ r.priority = q.priority
               /\ Pos(scan.variations, r.id) < Pos(scan.variations, q.id)})

\* doesVariationMatch(variation, eventData)
doesVariationMatch(variation, eventData) ==
  CASE variation.condition_type = "tier" ->
         String(eventData.tier) = String(variation.condition_value)
    [] variation.condition_type = "amount" ->
         IF eventData.amount = AmountUndefined
           THEN FALSE
           ELSE NumberOfAmount(eventData.amount) >= NumberOfText(variation.condition_value)
    [] variation.condition_type = "custom" ->
         String(eventData.custom_value) = String(variation.condition_value)
    [] OTHER -> FALSE

mergeVariation_NoNullCheck(alert, variation) ==
  [[f \in DOMAIN alert |->
      IF f \in OverrideFields THEN variation[f] ELSE alert[f]]
     EXCEPT !["_variation_id"] = variation.id,
            !["_variation_name"] = variation.name]

\* mergeVariation(alert, variation): a new record
mergeVariation(alert, variation) ==
  [[f \in DOMAIN alert |->
      IF f \in OverrideFields /\ variation[f] # Null THEN variation[f] ELSE alert[f]]
     EXCEPT !["_variation_id"] = variation.id,
            !["_variation_name"] = variation.name]

\* the min_amount condition of findMatchingAlert: the alert is skipped
MinAmountSkips(alert, eventData) ==
  /\ alert.min_amount # NullAmount
  /\ eventData.amount # AmountUndefined
  /\ NumberOfAmount(eventData.amount) < alert.min_amount

findMatchingAlert_NoGate(d, scan, eventType, eventData) ==
  LET alerts == SelectEnabledAlerts(d, scan, eventType)
  IN  IF Len(alerts) = 0
        THEN [result |-> NoRow, parent |-> NoRow, evaluated |-> {}]
        ELSE LET alert == alerts[1]
                 variations == SelectEnabledVariations(d, scan, alert.id)
                 hits == {i \in DOMAIN variations :
                            doesVariationMatch(variations[i], eventData)}
                 first == IF hits = {} THEN Len(variations)
                          ELSE CHOOSE i \in hits : \A j \in hits : i <= j
             IN  [result |-> IF hits = {} THEN alert
                             ELSE mergeVariation(alert, variations[first]),
                  parent |-> alert,
                  evaluated |-> {variations[i].id : i \in 1..first}]

findMatchingAlert_LastWins(d, scan, eventType, eventData) ==
  LET alerts == SelectEnabledAlerts(d, scan, eventType)
      passing == SelectSeq(alerts, LAMBDA a : ~MinAmountSkips(a, eventData))
  IN  IF Len(passing) = 0
        THEN [result |-> NoRow, parent |-> NoRow, evaluated |-> {}]
        ELSE LET alert == passing[Len(passing)]
                 variations == SelectEnabledVariations(d, scan, alert.id)
                 hits == {i \in DOMAIN variations :
                            doesVariationMatch(variations[i], eventData)}
                 first == IF hits = {} THEN Len(variations)
                          ELSE CHOOSE i \in hits : \A j \in hits : i <= j
             IN  [result |-> IF hits = {} THEN alert
                             ELSE mergeVariation(alert, variations[first]),
                  parent |-> alert,
                  evaluated |-> {variations[i].id : i \in 1..first}]

\* findMatchingAlert(eventType, eventData) on the snapshot d: the result
\* (NoRow for null), the alert row it derives from and the variations
\* doesVariationMatch was called on. The loop returns at the first alert
\* the min_amount condition does not skip.
findMatchingAlert(d, scan, eventType, eventData) ==
  LET alerts == SelectEnabledAlerts(d, scan, eventType)
      passing == SelectSeq(alerts, LAMBDA a : ~MinAmountSkips(a, eventData))
  IN  IF Len(passing) = 0
        THEN [result |-> NoRow, parent |-> NoRow, evaluated |-> {}]
        ELSE LET alert == passing[1]
                 variations == SelectEnabledVariations(d, scan, alert.id)
                 hits == {i \in DOMAIN variations :
                            doesVariationMatch(variations[i], eventData)}
                 first == IF hits = {} THEN Len(variations)
                          ELSE CHOOSE i \in hits : \A j \in hits : i <= j
             IN  [result |-> IF hits = {} THEN alert
                             ELSE mergeVariation(alert, variations[first]),
                  parent |-> alert,
                  evaluated |-> {variations[i].id : i \in 1..first}]

deleteAlert_NoCascade(d, id) ==
  [db |-> [d EXCEPT !.alerts = {a \in d.alerts : a.id # id}],
   changed |-> \E a \in d.alerts : a.id = id]

\* deleteAlert(id): DELETE FROM alerts WHERE id = ?, with the ON DELETE
\* CASCADE of alert_variations.parent_alert_id when foreign_keys is on; the
\* new database and result.changes > 0
deleteAlert(d, id) ==
  [db |-> [d EXCEPT !.alerts = {a \in d.alerts : a.id # id},
                    !.variations = IF d.foreign_keys
                                     THEN {v \in d.variations : v.parent_alert_id # id}
                                     ELSE d.variations],
   changed |-> \E a \in d.alerts : a.id = id]

\* the database before any alert was created
EmptyDb == [alerts |-> {}, variations |-> {}, foreign_keys |-> TRUE]

\* no call of the alert database module yet
NoCall ==
  [op |-> "none", id |-> Null, type |-> Null,
   data |-> EventData(AmountUndefined, Undefined),
   result |-> NoRow, parent |-> NoRow, evaluated |-> {}, changed |-> FALSE]

\* the outcome of a call of the CRUD functions: the database after it, the
\* message of the error it threw ("" when it returned) and whether it
\* returned a row or true
CrudResult(d, threw, changed) == [db |-> d, threw |-> threw, changed |-> changed]

\* the alertData and updates objects of createAlert and updateAlert; an
\* absent property is undefined
AlertData(type, name, message_template) ==
  [type |-> type, name |-> name, message_template |-> message_template]

\* objects createAlert is called with: a follow and a cheer alert
CreateAlertInputs ==
  {AlertData("follow", "New alert", Undefined),
   AlertData("cheer", "New alert", Undefined)}

\* objects updateAlert is called with: no field, a name, a type, and a type
\* with a name
UpdateAlertInputs ==
  {AlertData(Undefined, Undefined, Undefined),
   AlertData(Undefined, "Renamed", Undefined),
   AlertData("cheer", Undefined, Undefined),
   AlertData("follow", "Renamed", Undefined)}

\* the time of the calls, as a created_at
CrudTime == 1

\* createAlert(alertData) at time now, uuidv4() returning id: the given
\* columns, ALERT_DEFAULTS for the others, null where there is no default
createAlert(d, id, alertData, now) ==
  LET row == [AlertRow(id, alertData.type, 1, now, NullAmount) EXCEPT
                !.name = alertData.name,
                !.message_template = IF alertData.message_template = Undefined
                                       THEN Null ELSE alertData.message_template,
                !.duration_ms = 5000]
  IN  IF alertData.type \in {Undefined, Null} \/ alertData.name \in {Undefined, Null}
        THEN CrudResult(d, "NOT NULL constraint failed", FALSE)
        ELSE CrudResult([d EXCEPT !.alerts = @ \cup {row}], "", TRUE)

\* updateAlert(id, updates): every column of ALERT_COLUMNS the updates
\* define is set, type among them; null for an id no alert has
updateAlert(d, id, updates) ==
  IF ~ \E a \in d.alerts : a.id = id
    THEN CrudResult(d, "", FALSE)
    ELSE LET existing == CHOOSE a \in d.alerts : a.id = id
             row == [existing EXCEPT
                       !.type = IF updates.type # Undefined THEN updates.type ELSE @,
                       !.name = IF updates.name # Undefined THEN updates.name ELSE @,
                       !.message_template =
                         IF updates.message_template # Undefined
                           THEN updates.message_template ELSE @]
         IN  IF row.type = Null \/ row.name = Null
               THEN CrudResult(d, "NOT NULL constraint failed", FALSE)
               ELSE CrudResult([d EXCEPT !.alerts = (@ \ {existing}) \cup {row}],
                               "", TRUE)

\* the history entry of a call of the CRUD functions
CrudCall(op, id, parent, r) ==
  [op |-> op, id |-> id, type |-> Null, data |-> EventData(AmountUndefined, Undefined),
   result |-> NoRow, parent |-> parent, evaluated |-> {}, changed |-> r.changed,
   threw |-> r.threw]

\* getAlertById(id): the row, or null
getAlertById(d, id) ==
  IF \E a \in d.alerts : a.id = id THEN CHOOSE a \in d.alerts : a.id = id ELSE NoRow

\* the variationData and updates objects of createAlertVariation and
\* updateAlertVariation; an absent property is undefined
VariationData(parent_alert_id, name, condition_type, condition_value) ==
  [parent_alert_id |-> parent_alert_id, name |-> name,
   condition_type |-> condition_type, condition_value |-> condition_value]

\* ids createAlertVariation is given as parent: the alerts' and one no
\* alert has
ParentIds == AlertIds \cup {"a0"}

\* objects createAlertVariation is called with: an amount variation under
\* each parent id, and one without a name
CreateVariationInputs ==
  {VariationData(p, "Big cheer", "amount", "100") : p \in ParentIds}
    \cup {VariationData("a1", Undefined, "amount", "100")}

\* objects updateAlertVariation is called with: no field, a name, a
\* condition value, and another parent
UpdateVariationInputs ==
  {VariationData(Undefined, Undefined, Undefined, Undefined),
   VariationData(Undefined, "Renamed", Undefined, Undefined),
   VariationData(Undefined, Undefined, Undefined, "10"),
   VariationData("a2", Undefined, Undefined, Undefined),
   VariationData("a0", "Renamed", Undefined, Undefined)}

createAlertVariation_NoParentCheck(d, id, variationData, now) ==
  LET row == [VariationRow(id, variationData.parent_alert_id,
                           variationData.condition_type,
                           variationData.condition_value, 1, 0, now) EXCEPT
                !.name = variationData.name, !.message_template = Null,
                !.sound_path = Null, !.animation_in = Null]
  IN  IF \/ variationData.name \in {Undefined, Null, ""}
         \/ variationData.condition_type \in {Undefined, Null, ""}
         \/ variationData.condition_value \in {Undefined, Null}
        THEN CrudResult(d, "Missing required variation fields", FALSE)
        ELSE CrudResult([d EXCEPT !.variations = @ \cup {row}], "", TRUE)

\* createAlertVariation(variationData) at time now, uuidv4() returning id
createAlertVariation(d, id, variationData, now) ==
  LET row == [VariationRow(id, variationData.parent_alert_id,
                           variationData.condition_type,
                           variationData.condition_value, 1, 0, now) EXCEPT
                !.name = variationData.name, !.message_template = Null,
                !.sound_path = Null, !.animation_in = Null]
  IN  IF getAlertById(d, variationData.parent_alert_id) = NoRow
        THEN CrudResult(d, "Parent alert not found", FALSE)
      ELSE IF \/ variationData.name \in {Undefined, Null, ""}
              \/ variationData.condition_type \in {Undefined, Null, ""}
              \/ variationData.condition_value \in {Undefined, Null}
        THEN CrudResult(d, "Missing required variation fields", FALSE)
      ELSE CrudResult([d EXCEPT !.variations = @ \cup {row}], "", TRUE)

\* updateAlertVariation(id, updates): every column of VARIATION_COLUMNS the
\* updates define is set; parent_alert_id is none of them
updateAlertVariation(d, id, updates) ==
  IF ~ \E v \in d.variations : v.id = id
    THEN CrudResult(d, "", FALSE)
    ELSE LET existing == CHOOSE v \in d.variations : v.id = id
             row == [existing EXCEPT
                       !.name = IF updates.name # Undefined THEN updates.name ELSE @,
                       !.condition_type =
                         IF updates.condition_type # Undefined
                           THEN updates.condition_type ELSE @,
                       !.condition_value =
                         IF updates.condition_value # Undefined
                           THEN updates.condition_value ELSE @]
         IN  IF Null \in {row.name, row.condition_type, row.condition_value}
               THEN CrudResult(d, "NOT NULL constraint failed", FALSE)
               ELSE CrudResult([d EXCEPT !.variations = (@ \ {existing}) \cup {row}],
                               "", TRUE)

\* deleteAlertVariation(id): result.changes > 0
deleteAlertVariation(d, id) ==
  CrudResult([d EXCEPT !.variations = {v \in @ : v.id # id}], "",
             \E v \in d.variations : v.id = id)

\* the variations doesVariationMatch is called with: the three condition
\* types and one that is none of them, on numeric condition values
MatchVariations ==
  {VariationRow("v1", "a1", condition_type, condition_value, 1, 0, 1) :
     condition_type \in {"tier", "amount", "custom", "followers"},
     condition_value \in {"0", "2", "10", "100"}}

\* the events it is called with: without amount, with the null amount the
\* test-alert route passes, and with amounts around the condition values
MatchEvents ==
  {EventData(amount, tier) :
     amount \in {AmountUndefined, AmountNull, 0, 5, 10, 100},
     tier \in {Undefined, Null, "2"}}

\* no call of doesVariationMatch yet
NoMatchCall ==
  [called |-> FALSE, variation |-> VariationRow(Null, Null, Null, Null, 0, 0, 0),
   eventData |-> EventData(AmountUndefined, Undefined), result |-> FALSE]

\* ------------------------------------------------------------------------
\* Alert templates (server/alerts/templates.js, server/routes/templates.js,
\* migration 005_alert_templates.sql)
\* ------------------------------------------------------------------------

\* a row of alert_templates
TemplateRow(id, name, description, author, template_data, is_builtin, created_at, updated_at) ==
  [id |-> id, name |-> name, description |-> description, author |-> author,
   template_data |-> template_data, is_builtin |-> is_builtin,
   created_at |-> created_at, updated_at |-> updated_at]

\* datetime('now') when the migration ran
MigratedAt == "2024-01-01 00:00:00"

\* new Date().toISOString() of the later calls
Times == {"2024-01-02T00:00:00.000Z", "2024-01-03T00:00:00.000Z"}

\* the rows migration 005 inserts
BuiltinTemplates ==
  {TemplateRow("builtin_follow_minimal",
     "Minimal Follow",
     "Simple, clean follower alert with fade animation",
     "StreamForge",
     "{\"type\":\"follow\",\"name\":\"New Follower\",\"message_template\":\"{username} just followed!\",\"duration_ms\":4000,\"animation_in\":\"fadeIn\",\"animation_out\":\"fadeOut\",\"sound_path\":null,\"sound_volume\":0.8,\"image_path\":null,\"font_family\":\"Poppins\",\"font_size\":42,\"text_color\":\"#FFFFFF\",\"bg_color\":\"rgba(0,0,0,0.85)\",\"custom_css\":\"\",\"min_amount\":0,\"tts_enabled\":0}",
     1, MigratedAt, MigratedAt),
   TemplateRow("builtin_sub_premium",
     "Premium Subscribe",
     "Bouncy, eye-catching subscription alert with purple theme",
     "StreamForge",
     "{\"type\":\"subscribe\",\"name\":\"New Subscriber\",\"message_template\":\"Thanks for subscribing, {username}!\",\"duration_ms\":6000,\"animation_in\":\"bounceIn\",\"animation_out\":\"bounceOut\",\"sound_path\":null,\"sound_volume\":0.9,\"image_path\":null,\"font_family\":\"Poppins\",\"font_size\":48,\"text_color\":\"#FFFFFF\",\"bg_color\":\"#6441A5\",\"custom_css\":\"border: 3px solid #fff; box-shadow: 0 0 20px rgba(100,65,165,0.8);\",\"min_amount\":0,\"tts_enabled\":0}",
     1, MigratedAt, MigratedAt),
   TemplateRow("builtin_cheer_gold",
     "Golden Cheer",
     "Shiny gold-themed alert for bit cheers",
     "StreamForge",
     "{\"type\":\"cheer\",\"name\":\"Bits Cheer\",\"message_template\":\"{username} cheered {amount} bits!\",\"duration_ms\":5000,\"animation_in\":\"popIn\",\"animation_out\":\"popOut\",\"sound_path\":null,\"sound_volume\":0.85,\"image_path\":null,\"font_family\":\"Poppins\",\"font_size\":44,\"text_color\":\"#FFD700\",\"bg_color\":\"rgba(0,0,0,0.9)\",\"custom_css\":\"text-shadow: 0 0 10px #FFD700;\",\"min_amount\":0,\"tts_enabled\":0}",
     1, MigratedAt, MigratedAt)}

BuiltinIds == {r.id : r \in BuiltinTemplates}

\* ids uuidv4() returns for user templates
UserTemplateIds == {"u1", "u2"}

\* ids the routes are called with: the built-in rows', the user rows' and
\* one no row has
TemplateIds == BuiltinIds \cup UserTemplateIds \cup {"u0"}

\* JavaScript values of a template_data property, by typeof
JsUndefined == [typeof |-> "undefined", value |-> Undefined]

JsString(s) == [typeof |-> "string", value |-> s]

\* the object { type: <type> }
JsObject(type) == [typeof |-> "object", value |-> type]

\* JSON.stringify of the object { type: <type> }
JSONstringify(o) ==
  CASE o.value = "follow" -> "{\"type\":\"follow\"}"
    [] o.value = "cheer" -> "{\"type\":\"cheer\"}"

\* typeof template_data === 'string' ? template_data : JSON.stringify(template_data)
TemplateDataText(v) == IF v.typeof = "string" THEN v.value ELSE JSONstringify(v)

\* a request body of the template routes
TemplateBody(name, description, author, template_data) ==
  [name |-> name, description |-> description, author |-> author,
   template_data |-> template_data]

\* bodies of POST /api/templates: two complete ones, one without a name and
\* one without template_data
CreateBodies ==
  {TemplateBody("Mine", Undefined, Undefined, JsObject("follow")),
   TemplateBody("Mine", "d", "me", JsString("{\"type\":\"cheer\"}")),
   TemplateBody(Undefined, Undefined, Undefined, JsObject("follow")),
   TemplateBody("Mine", Undefined, Undefined, JsUndefined)}

\* bodies of PUT /api/templates/:id: a new name, a new description and
\* template_data, no field, and a null name
UpdateBodies ==
  {TemplateBody("Renamed", Undefined, Undefined, JsUndefined),
   TemplateBody(Undefined, "e", Undefined, JsObject("cheer")),
   TemplateBody(Undefined, Undefined, Undefined, JsUndefined),
   TemplateBody(Null, Undefined, Undefined, JsUndefined)}

\* no row: what .get(id) returns when no row has the id
NoTemplate == TemplateRow(Null, Null, Null, Null, Null, 0, Null, Null)

\* getTemplateById(id): SELECT * FROM alert_templates WHERE id = ?
getTemplateById(rows, id) ==
  IF \E r \in rows : r.id = id THEN CHOOSE r \in rows : r.id = id ELSE NoTemplate

\* the outcome of a call: the table after it, the message of the error it
\* threw ("" when it returned) and the row it returned
Outcome(rows, threw, result) == [rows |-> rows, threw |-> threw, result |-> result]

\* createTemplate(data) at time now, uuidv4() returning id
createTemplate(rows, id, data, now) ==
  LET row == TemplateRow(id, data.name,
                         IF data.description \in {Undefined, Null, ""}
                           THEN "" ELSE data.description,
                         IF data.author \in {Undefined, Null, ""}
                           THEN "User" ELSE data.author,
                         TemplateDataText(data.template_data),
                         0, now, now)
  IN  Outcome(rows \cup {row}, "", row)

\* the row after UPDATE alert_templates SET <the given fields>, updated_at
UpdatedRow(existing, updates, now) ==
  [existing EXCEPT
     !.name = IF updates.name # Undefined THEN updates.name ELSE @,
     !.description = IF updates.description # Undefined THEN updates.description ELSE @,
     !.author = IF updates.author # Undefined THEN updates.author ELSE @,
     !.template_data = IF updates.template_data.typeof # "undefined"
                         THEN TemplateDataText(updates.template_data) ELSE @,
     !.updated_at = now]

updateTemplate_NoBuiltinCheck(rows, id, updates, now) ==
  LET existing == getTemplateById(rows, id)
      row == UpdatedRow(existing, updates, now)
  IN  IF existing = NoTemplate THEN Outcome(rows, "Template not found", NoTemplate)
      ELSE Outcome((rows \ {existing}) \cup {row}, "", row)

\* updateTemplate(id, updates) at time now
updateTemplate(rows, id, updates, now) ==
  LET existing == getTemplateById(rows, id)
      row == UpdatedRow(existing, updates, now)
  IN  IF existing = NoTemplate THEN Outcome(rows, "Template not found", NoTemplate)
      ELSE IF existing.is_builtin # 0
        THEN Outcome(rows, "Cannot update built-in templates", NoTemplate)
      ELSE IF /\ updates.name = Undefined
              /\ updates.description = Undefined
              /\ updates.author = Undefined
              /\ updates.template_data.typeof = "undefined"
        THEN Outcome(rows, "", existing)
      ELSE IF row.name = Null
        THEN Outcome(rows, "NOT NULL constraint failed: alert_templates.name",
                     NoTemplate)
      ELSE Outcome((rows \ {existing}) \cup {row}, "", row)

\* deleteTemplate(id)
deleteTemplate(rows, id) ==
  LET existing == getTemplateById(rows, id)
  IN  IF existing = NoTemplate THEN Outcome(rows, "Template not found", NoTemplate)
      ELSE IF existing.is_builtin # 0
        THEN Outcome(rows, "Cannot delete built-in templates", NoTemplate)
      ELSE Outcome(rows \ {existing}, "", NoTemplate)

\* error.message.includes('built-in')
IncludesBuiltIn(message) ==
  message \in {"Cannot update built-in templates", "Cannot delete built-in templates"}

\* error.message.includes('not found')
IncludesNotFound(message) == message = "Template not found"

\* the response of a template route: the status, the error of the body and
\* the template of the body
Response(op, id, status, error, template) ==
  [op |-> op, id |-> id, status |-> status, error |-> error, template |-> template]

\* no request of the template routes yet
NoResponse == Response("none", Null, 0, "", NoTemplate)

\* ------------------------------------------------------------------------
\* Migration runner (server/database.js: initDatabase, runMigrations)
\* ------------------------------------------------------------------------

\* bound: calls of initDatabase (starts of the server on one database file)
MaxRuns == 4

\* a directory entry <prefix>_<name>.<ext>; the prefixes are zero-padded to
\* one width, so that the order of the file names is the order of prefixes
DirEntry(prefix, name, ext) == [prefix |-> prefix, name |-> name, ext |-> ext]

\* the entries of the migrations directory: three scripts and one other file
MigrationsDir ==
  {DirEntry(3, "event_log", "sql"), DirEntry(4, "tts_fields", "sql"),
   DirEntry(5, "alert_templates", "sql"), DirEntry(9, "README", "md")}

\* orders in which fs.readdirSync may list the directory: the scripts in
\* any order, after the other file
Listings == {listing \in Perms(MigrationsDir) : listing[1].ext = "md"}

\* fs.readdirSync(migrationsDir).filter(f => f.endsWith('.sql')).sort()
migrationFiles(listing) ==
  LET sql == {listing[i] : i \in {j \in DOMAIN listing : listing[j].ext = "sql"}}
  IN  Sorted(sql, {<<f, g>> \in sql \X sql : f.prefix < g.prefix})

\* the database and the progress of one call of runMigrations: the rows of
\* _migrations, the committed scripts, the foreign_keys pragma, the scripts
\* the call executed with their outcome, and whether the call threw
MigrationState(rows, committed, fk, executed, threw) ==
  [migrations |-> rows, schema |-> committed, foreign_keys |-> fk,
   executed |-> executed, threw |-> threw]

\* db.pragma('foreign_keys = <value>'): a no-op within a transaction
pragmaForeignKeys(st, value, inTransaction) ==
  IF inTransaction THEN st ELSE [st EXCEPT !.foreign_keys = value]

applyMigration_NoRollback(st, filename, fails, now) ==
  LET off == pragmaForeignKeys(st, FALSE, TRUE)
      run == [off EXCEPT !.schema = Append(@, filename)]
  IN  IF fails \/ \E i \in DOMAIN st.migrations : st.migrations[i].filename = filename
        THEN [run EXCEPT !.executed = Append(@, [filename |-> filename, ok |-> FALSE]),
                         !.threw = TRUE]
        ELSE [pragmaForeignKeys(run, TRUE, TRUE) EXCEPT
                !.migrations = Append(@, [filename |-> filename, applied_at |-> now]),
                !.executed = Append(@, [filename |-> filename, ok |-> TRUE])]

\* applyMigration(): the transaction of one script; fails says that db.exec
\* of the script throws, and the INSERT throws when the filename is recorded
\* already (filename is UNIQUE); a throw rolls the transaction back
applyMigration(st, filename, fails, now) ==
  LET off == pragmaForeignKeys(st, FALSE, TRUE)
      run == [off EXCEPT !.schema = Append(@, filename)]
  IN  IF fails \/ \E i \in DOMAIN st.migrations : st.migrations[i].filename = filename
        THEN [off EXCEPT !.schema = st.schema, !.migrations = st.migrations,
                         !.executed = Append(@, [filename |-> filename, ok |-> FALSE]),
                         !.threw = TRUE]
        ELSE [pragmaForeignKeys(run, TRUE, TRUE) EXCEPT
                !.migrations = Append(@, [filename |-> filename, applied_at |-> now]),
                !.executed = Append(@, [filename |-> filename, ok |-> TRUE])]

RECURSIVE applyPending_NoSkip(_, _, _, _, _, _)
applyPending_NoSkip(files, i, applied, st, failing, now) ==
  IF i > Len(files) THEN st
  ELSE LET r == applyMigration(st, files[i], files[i] \in failing, now)
       IN  IF r.threw THEN pragmaForeignKeys(r, TRUE, FALSE)
           ELSE applyPending_NoSkip(files, i + 1, applied, r, failing, now)

\* the loop over migrationFiles from the i-th on: a recorded script is
\* skipped, a throw re-enables foreign keys and ends the loop
RECURSIVE applyPending(_, _, _, _, _, _)
applyPending(files, i, applied, st, failing, now) ==
  IF i > Len(files) THEN st
  ELSE IF files[i] \in applied
    THEN applyPending(files, i + 1, applied, st, failing, now)
  ELSE LET r == applyMigration(st, files[i], files[i] \in failing, now)
       IN  IF r.threw THEN pragmaForeignKeys(r, TRUE, FALSE)
           ELSE applyPending(files, i + 1, applied, r, failing, now)

\* runMigrations() on the database st, the directory being listed as
\* listing and the scripts of failing throwing when executed
runMigrations(st, listing, failing, now) ==
  LET files == migrationFiles(listing)
      applied == {st.migrations[i].filename : i \in DOMAIN st.migrations}
  IN  IF Len(files) = 0 THEN st
      ELSE applyPending(files, 1, applied, st, failing, now)

\* a call of runMigrations, as the history keeps it
MigrationRun(before, r) ==
  [applied |-> {before[i].filename : i \in DOMAIN before},
   executed |-> r.executed, threw |-> r.threw]

\* ------------------------------------------------------------------------
\* Server process (server/index.js, server/config.js): startup, port
\* discovery, the WebSocket hub and shutdown
\* ------------------------------------------------------------------------

\* config.defaultPort
DefaultPort == 39283

\* config.portRange.min
PortRangeMin == 39283

\* bound: the ports of the range above portRange.min (the configuration has 100)
PortSpan == 2

\* config.portRange.max, scaled to the bound
PortRangeMax == PortRangeMin + PortSpan

RangePorts == PortRangeMin..PortRangeMax

\* the ports the OS may assign when port 0 is requested
EphemeralPorts == {49152}

\* config.socketNamespaces
socketNamespaces == <<"/alerts", "/chat", "/widgets", "/dashboard">>

Namespaces == {socketNamespaces[i] : i \in DOMAIN socketNamespaces}

\* a line of standard output; port is the number a SERVER_PORT line carries
Line(text) == [text |-> text, port |-> 0]

PortLine(n) == [text |-> "SERVER_PORT=", port |-> n]

\* the console.log lines of runMigrations for the scripts a call executed
RECURSIVE MigrationLines(_, _)
MigrationLines(executed, i) ==
  IF i > Len(executed) THEN <<>>
  ELSE <<Line("[Database] Applying migration")>>
         \o (IF executed[i].ok THEN <<Line("[Database] Applied migration")>> ELSE <<>>)
         \o MigrationLines(executed, i + 1)

\* the console.log lines of initDatabase() and of startServer's try block
\* around it, for the call of runMigrations r
DatabaseLines(r) ==
  <<Line("[Database] Opened database")>>
    \o MigrationLines(r.executed, 1)
    \o (IF r.threw THEN <<>>
        ELSE <<IF \E i \in DOMAIN r.executed : r.executed[i].ok
                 THEN Line("[Database] Applied n migration(s)")
                 ELSE Line("[Database] All migrations already applied"),
               Line("[Server] Database location")>>)

\* the console.log lines of the listen callback
BannerLines(n) ==
  <<PortLine(n), Line("[Server] StreamForge server running"),
    Line("[Server] Health check"), Line("[Server] WebSocket status"),
    Line("[Server] Test page"), Line("[Server] Alert overlay"),
    Line("[Server] Socket.io namespaces")>>

nextRangePort_NoSkip(from) ==
  IF \E q \in RangePorts : q >= from
    THEN CHOOSE q \in RangePorts : q >= from /\ \A r \in RangePorts : r >= from => q <= r
    ELSE 0

\* the loop of findAvailablePort from the port from on: the next port of the
\* range to test, the default port being skipped; 0 when the range is done
nextRangePort(from) ==
  LET rest == {q \in RangePorts : q >= from /\ q # DefaultPort}
  IN  IF rest = {} THEN 0 ELSE CHOOSE q \in rest : \A r \in rest : q <= r

\* clientCounts after the connection handler of the namespace ns
onConnection(counts, ns) == [counts EXCEPT ![ns] = @ + 1]

onDisconnect_NoDecrement(counts, ns) == counts

\* clientCounts after the disconnect handler of a socket of the namespace ns
onDisconnect(counts, ns) ==
  [counts EXCEPT ![ns] = IF @ - 1 > 0 THEN @ - 1 ELSE 0]

\* Object.values(clientCounts).reduce((sum, n) => sum + n, 0) over the
\* namespaces from the i-th on
RECURSIVE totalClients(_, _)
totalClients(counts, i) ==
  IF i > Len(socketNamespaces) THEN 0
  ELSE counts[socketNamespaces[i]] + totalClients(counts, i + 1)

\* the body of GET /api/ws/status
WsStatus(counts) == [clients |-> counts, totalClients |-> totalClients(counts, 1)]

\* a message the hub emits, to the sockets of a namespace or to one socket,
\* and the data it carries ("none": the event alone)
HubMessage(ns, event, data) == [namespace |-> ns, event |-> event, data |-> data]

\* the handler emitted nothing
NoBroadcast == <<>>

\* no client sent an event yet
NoneReceived == HubMessage("none", "none", "none")

\* namespaceEvents: the handlers of each namespace, with the namespace and
\* the event each emits ("none": the handler only logs) and whether it
\* passes the client's data on
Handler(ns, event, toNs, toEvent, forwards) ==
  [namespace |-> ns, event |-> event, toNs |-> toNs, toEvent |-> toEvent,
   forwards |-> forwards]

namespaceEvents ==
  {Handler("/alerts", "alert:done", "none", "none", FALSE),
   Handler("/alerts", "alert:skip", "none", "none", FALSE),
   Handler("/alerts", "alert:pause", "/alerts", "alert:paused", FALSE),
   Handler("/chat", "chat:clear", "/chat", "chat:clear", FALSE),
   Handler("/chat", "chat:delete", "/chat", "chat:delete", TRUE),
   Handler("/widgets", "config:changed", "/widgets", "config:changed", TRUE),
   Handler("/dashboard", "config:changed", "/widgets", "config:changed", TRUE),
   Handler("/dashboard", "alert:trigger", "/alerts", "alert:trigger", TRUE)}

\* what a client sends with an event: an object, a string, or nothing but
\* an acknowledgement callback, which the handler then receives as data
ClientData == {"object", "string", "callback"}

handlerEmits_ToSender(h, data) ==
  IF h.toNs = "none" THEN NoBroadcast
  ELSE <<HubMessage(h.namespace, h.toEvent,
                    IF h.forwards THEN data
                    ELSE IF h.toEvent = "alert:paused" THEN "paused"
                    ELSE "none")>>

\* namespaces[h.toNs].emit(h.toEvent, ...) of the handler h called with
\* data: the messages it emits. 'alert:paused' carries { paused:
\* !!data?.paused }, 'chat:clear' carries nothing
handlerEmits(h, data) ==
  IF h.toNs = "none" THEN NoBroadcast
  ELSE <<HubMessage(h.toNs, h.toEvent,
                    IF h.forwards THEN data
                    ELSE IF h.toEvent = "alert:paused" THEN "paused"
                    ELSE "none")>>

\* the clients of the hub
HubClients == {"obs", "dock"}

\* clientCounts after the disconnect handlers of n sockets of ns
RECURSIVE disconnectSockets(_, _, _)
disconnectSockets(counts, ns, n) ==
  IF n = 0 THEN counts ELSE disconnectSockets(onDisconnect(counts, ns), ns, n - 1)

\* clientCounts after io.close() closed the sockets of the namespaces from
\* the i-th on
RECURSIVE closeSockets(_, _, _)
closeSockets(counts, socks, i) ==
  IF i > Len(socketNamespaces) THEN counts
  ELSE closeSockets(disconnectSockets(counts, socketNamespaces[i],
                                      Cardinality(socks[socketNamespaces[i]])),
                    socks, i + 1)

\* bound: the signals the process receives
MaxSignals == 2

\* the process before index.js is loaded
ProcInit ==
  /\ pc = "load"
  /\ stdout = <<>>
  /\ busyPorts = {}
  /\ probes = <<>>
  /\ port = 0
  /\ serverPort = 0
  /\ dbOpen = FALSE
  /\ exitCode = -1
  /\ shutdownSteps = <<>>
  /\ forceTimers = 0

\* the hub after setupNamespace() ran for every namespace
HubVarsInit ==
  /\ clientCounts = [ns \in Namespaces |-> 0]
  /\ connected = [ns \in Namespaces |-> {}]
  /\ wsStatus = WsStatus([ns \in Namespaces |-> 0])
  /\ broadcast = NoBroadcast
  /\ received = NoneReceived

\* ------------------------------------------------------------------------
\* Event logger (server/alerts/logger.js) and the event_log functions of
\* server/database.js
\* ------------------------------------------------------------------------

\* a row of event_log
EventRow(id, platform, event_type, username, display_name, amount, message, metadata, alert_fired, timestamp) ==
  [id |-> id, platform |-> platform, event_type |-> event_type,
   username |-> username, display_name |-> display_name, amount |-> amount,
   message |-> message, metadata |-> metadata, alert_fired |-> alert_fired,
   timestamp |-> timestamp]

\* no row: the null logEvent returns
NoEventRow ==
  EventRow(Null, Null, Null, Null, Null, AmountNull, Null, Null, 0, Null)

\* ids uuidv4() returns for log records
EventIds == {"e1", "e2"}

\* an eventData object; an absent property is undefined
LogData(platform, event_type, username, display_name, amount, message, metadata, alert_fired) ==
  [platform |-> platform, event_type |-> event_type, username |-> username,
   display_name |-> display_name, amount |-> amount, message |-> message,
   metadata |-> metadata, alert_fired |-> alert_fired]

\* events logEvent is called with: one with the required properties only,
\* one with every property, and one without a username
LogInputs ==
  {LogData(Undefined, "follow", "alice", Undefined, AmountUndefined, Undefined,
           JsUndefined, 0),
   LogData("twitch", "cheer", "bob", "Bob", 100, "hi", JsObject("cheer"), 1),
   LogData(Undefined, "follow", Undefined, Undefined, AmountUndefined, Undefined,
           JsUndefined, 0)}

\* the options of a list query
LogOptions(limit, event_type, platform, alert_fired_only, search) ==
  [limit |-> limit, event_type |-> event_type, platform |-> platform,
   alert_fired_only |-> alert_fired_only, search |-> search]

\* options getRecentEvents is called with: none, a limit, a negative
\* limit, the filters on the columns, and a search term
ListOptions ==
  {LogOptions(0, Undefined, Undefined, FALSE, Undefined),
   LogOptions(1, Undefined, Undefined, FALSE, Undefined),
   LogOptions(-1, Undefined, Undefined, FALSE, Undefined),
   LogOptions(0, "cheer", "twitch", TRUE, Undefined),
   LogOptions(0, Undefined, Undefined, FALSE, "bo")}

\* parseInt(req.query.limit) of the requests of GET /api/events: 0 for an
\* absent or non-numeric parameter (NaN is falsy as 0 is), a limit, a
\* negative one and one above the maximum
QueryLimits == {0, 1, -1, 5000}

\* Math.min(parseInt(req.query.limit) || 100, 1000)
routeLimit(parsed) ==
  LET given == IF parsed = 0 THEN 100 ELSE parsed
  IN  IF given < 1000 THEN given ELSE 1000

\* times pruneOldEvents runs at
PruneTimes == {"2024-01-05T00:00:00.000Z", "2024-01-10T00:00:00.000Z"}

\* the ISO timestamp seven days before now
sevenDaysAgo(now) ==
  CASE now = "2024-01-05T00:00:00.000Z" -> "2023-12-29T00:00:00.000Z"
    [] now = "2024-01-10T00:00:00.000Z" -> "2024-01-03T00:00:00.000Z"

\* the order of ISO timestamps as text: the day each names
TimeRank(t) ==
  CASE t = "2023-12-29T00:00:00.000Z" -> 0
    [] t = "2024-01-02T00:00:00.000Z" -> 4
    [] t = "2024-01-03T00:00:00.000Z" -> 5
    [] t = "2024-01-05T00:00:00.000Z" -> 7
    [] t = "2024-01-10T00:00:00.000Z" -> 12

\* text LIKE '%term%' (NULL matches nothing, ASCII case is ignored)
Like(text, term) ==
  CASE term = "bo" -> text \in {"bob", "Bob"}
    [] OTHER -> FALSE

\* the event_log table can be used: a connection is held and migration 003
\* is committed
StoreReady(open, committed) ==
  open /\ \E i \in DOMAIN committed : committed[i] = DirEntry(3, "event_log", "sql")

\* the outcome of a call of the logger or of database.js: the table after
\* it, whether the store operation failed, whether the call threw, and the
\* value it returned (a row, a list of rows or a number of rows)
LogResult(op, rows, failed, threw, row, list, deleted) ==
  [op |-> op, rows |-> rows, failed |-> failed, threw |-> threw, row |-> row,
   list |-> list, deleted |-> deleted]

\* no call of the logger yet
NoLogCall == [op |-> "none", failed |-> FALSE, threw |-> FALSE, row |-> NoEventRow,
              list |-> <<>>, deleted |-> 0]

\* createEventLog(logData): the INSERT fails without the table, and on a
\* NULL in a NOT NULL column or a repeated id
createEventLog(rows, ready, log) ==
  IF \/ ~ready
     \/ log.event_type \in {Undefined, Null}
     \/ log.username \in {Undefined, Null}
     \/ \E r \in rows : r.id = log.id
    THEN LogResult("createEventLog", rows, TRUE, TRUE, NoEventRow, <<>>, 0)
    ELSE LogResult("createEventLog", rows \cup {log}, FALSE, FALSE, log, <<>>, 0)

\* the rows of the set matching in the order of ORDER BY timestamp DESC;
\* rows of equal timestamp come in the order scan yields their ids
ByTimestampDesc(matching, scan) ==
  Sorted(matching,
         {<<r, q>> \in matching \X matching :
            \/ TimeRank(r.timestamp) > TimeRank(q.timestamp)
            \/ /\ r.timestamp = q.timestamp
               /\ Pos(scan, r.id) < Pos(scan, q.id)})

\* the first n elements of seq
Take(seq, n) == SubSeq(seq, 1, IF n < Len(seq) THEN n ELSE Len(seq))

\* getEventLogs(options)
getEventLogs(rows, ready, options, scan) ==
  LET matching ==
        {r \in rows :
           /\ options.event_type \notin {Undefined, Null, ""}
                => r.event_type = options.event_type
           /\ options.platform \notin {Undefined, Null, ""}
                => r.platform = options.platform
           /\ options.alert_fired_only => r.alert_fired = 1
           /\ options.search \notin {Undefined, Null, ""}
                => \/ Like(r.username, options.search)
                   \/ Like(r.display_name, options.search)
                   \/ Like(r.message, options.search)}
      limit == IF options.limit = 0 THEN 100 ELSE options.limit
      sorted == ByTimestampDesc(matching, scan)
  IN  IF ~ready THEN LogResult("getEventLogs", rows, TRUE, TRUE, NoEventRow, <<>>, 0)
      ELSE LogResult("getEventLogs", rows, FALSE, FALSE, NoEventRow,
                     IF limit < 0 THEN sorted ELSE Take(sorted, limit), 0)

\* getEventLogsByDateRange(startDate, endDate)
getEventLogsByDateRange(rows, ready, startDate, endDate, scan) ==
  LET matching == {r \in rows : /\ TimeRank(r.timestamp) >= TimeRank(startDate)
                                /\ TimeRank(r.timestamp) <= TimeRank(endDate)}
  IN  IF ~ready
        THEN LogResult("getEventLogsByDateRange", rows, TRUE, TRUE, NoEventRow, <<>>, 0)
        ELSE LogResult("getEventLogsByDateRange", rows, FALSE, FALSE, NoEventRow,
                       ByTimestampDesc(matching, scan), 0)

deleteEventLogsBefore_Inclusive(rows, ready, timestamp) ==
  LET old == {r \in rows : TimeRank(r.timestamp) <= TimeRank(timestamp)}
  IN  IF ~ready
        THEN LogResult("deleteEventLogsBefore", rows, TRUE, TRUE, NoEventRow, <<>>, 0)
        ELSE LogResult("deleteEventLogsBefore", rows \ old, FALSE, FALSE, NoEventRow,
                       <<>>, Cardinality(old))

\* deleteEventLogsBefore(timestamp)
deleteEventLogsBefore(rows, ready, timestamp) ==
  LET old == {r \in rows : TimeRank(r.timestamp) < TimeRank(timestamp)}
  IN  IF ~ready
        THEN LogResult("deleteEventLogsBefore", rows, TRUE, TRUE, NoEventRow, <<>>, 0)
        ELSE LogResult("deleteEventLogsBefore", rows \ old, FALSE, FALSE, NoEventRow,
                       <<>>, Cardinality(old))

\* the record logEvent builds from eventData, with its defaults
LogRecord(eventData, id, now) ==
  EventRow(id,
           IF eventData.platform = Undefined THEN "internal" ELSE eventData.platform,
           eventData.event_type,
           eventData.username,
           IF eventData.display_name = Undefined
             THEN eventData.username ELSE eventData.display_name,
           IF eventData.amount = AmountUndefined THEN AmountNull ELSE eventData.amount,
           IF eventData.message = Undefined THEN Null ELSE eventData.message,
           IF eventData.metadata.typeof = "undefined"
             THEN "{}" ELSE JSONstringify(eventData.metadata),
           eventData.alert_fired,
           now)

logEvent_NoCatch(rows, ready, eventData, id, now) ==
  [createEventLog(rows, ready, LogRecord(eventData, id, now)) EXCEPT !.op = "logEvent"]

\* logEvent(eventData) at time now, uuidv4() returning id
logEvent(rows, ready, eventData, id, now) ==
  LET r == createEventLog(rows, ready, LogRecord(eventData, id, now))
  IN  [r EXCEPT !.op = "logEvent", !.threw = FALSE]

\* getRecentEvents(options)
getRecentEvents(rows, ready, options, scan) ==
  LET r == getEventLogs(rows, ready, options, scan)
  IN  [r EXCEPT !.op = "getRecentEvents", !.threw = FALSE,
                !.list = IF r.threw THEN <<>> ELSE @]

\* getEventsByDateRange(startDate, endDate)
getEventsByDateRange(rows, ready, startDate, endDate, scan) ==
  LET r == getEventLogsByDateRange(rows, ready, startDate, endDate, scan)
  IN  [r EXCEPT !.op = "getEventsByDateRange", !.threw = FALSE,
                !.list = IF r.threw THEN <<>> ELSE @]

\* pruneOldEvents() at time now
pruneOldEvents(rows, ready, now) ==
  LET r == deleteEventLogsBefore(rows, ready, sevenDaysAgo(now))
  IN  [r EXCEPT !.op = "pruneOldEvents", !.threw = FALSE,
                !.deleted = IF r.threw THEN 0 ELSE @]

\* the history entry of a call: its outcome without the table
Called(r) ==
  [op |-> r.op, failed |-> r.failed, threw |-> r.threw, row |-> r.row,
   list |-> r.list, deleted |-> r.deleted]

\* the event logger before any call, on an empty event_log
LogInit ==
  /\ eventLog = {}
  /\ logResult = NoLogCall
  /\ logAttempts = {}

\* the database file before the first start
MigInit ==
  /\ migrations = <<>>
  /\ schema = <<>>
  /\ foreignKeys = FALSE
  /\ migrationRuns = <<>>

\* the initial values of the variables of the database startup, the
\* process, the hub and the event logger
SysInit == MigInit /\ ProcInit /\ HubVarsInit /\ LogInit

\* ------------------------------------------------------------------------
\* Initial state: the modules are loaded, setupNamespace() ran for every
\* namespace and the queue holds the /alerts namespace (init())
\* ------------------------------------------------------------------------

Init ==
  /\ queue = <<>>
  /\ currentAlert = NoAlert
  /\ isProcessing = FALSE
  /\ fallbackTimer = 0
  /\ alertsNamespace = TRUE
  /\ timers = {}
  /\ nextTimer = 1
  /\ nextId = 1
  /\ alertsSockets = {}
  /\ emitted = <<>>
  /\ accepted = <<>>
  /\ completed = <<>>
  /\ cleared = {}
  /\ wire = NoEmission
  /\ ret = 0
  /\ lastOp = "init"
  /\ db = EmptyDb
  /\ found = NoCall
  /\ matchCall = NoMatchCall
  /\ templates = BuiltinTemplates
  /\ response = NoResponse
  /\ SysInit

\* write a queue state back to the variables
Commit(s) ==
  /\ queue' = s.queue
  /\ currentAlert' = s.currentAlert
  /\ isProcessing' = s.isProcessing
  /\ fallbackTimer' = s.fallbackTimer
  /\ timers' = s.timers
  /\ nextTimer' = s.nextTimer
  /\ emitted' = s.emitted
  /\ wire' = s.wire

\* ------------------------------------------------------------------------
\* Actions
\* ------------------------------------------------------------------------

\* a caller invokes enqueueAlert(alertData)
EnqueueAlert(alertData) ==
  LET r == enqueueAlert(QueueState, alertData, nextId)
  IN  /\ ret' = r.ret
      /\ r.ret # 0 => nextId <= MaxAlerts
      /\ Commit(r.state)
      /\ nextId' = IF r.ret # 0 THEN nextId + 1 ELSE nextId
      /\ accepted' = IF r.ret # 0
                       THEN Append(accepted, [id |-> r.ret, waited |-> isProcessing])
                       ELSE accepted
      /\ lastOp' = "enqueueAlert"
      /\ UNCHANGED <<alertsNamespace, alertsSockets, completed, cleared>>
      /\ UNCHANGED <<dbVars, tplVars, sysVars>>

\* a caller invokes onAlertDone(data)
OnAlertDone(data) ==
  /\ Commit(onAlertDone(QueueState, data))
  /\ completed' = IF AckAccepted(QueueState, data)
                    THEN Append(completed, [id |-> currentAlert.id, by |-> "ack",
                                            elapsed |-> 0, timerFor |-> 0])
                    ELSE completed
  /\ ret' = 0
  /\ lastOp' = "onAlertDone"
  /\ UNCHANGED <<alertsNamespace, nextId, alertsSockets, accepted, cleared>>
  /\ UNCHANGED <<dbVars, tplVars, sysVars>>

\* a caller invokes clearQueue() (POST /api/test-alert/clear)
ClearQueue ==
  LET r == clearQueue(QueueState)
  IN  /\ Commit(r.state)
      /\ ret' = r.ret
      /\ cleared' = cleared \cup {queue[i].id : i \in DOMAIN queue}
      /\ lastOp' = "clearQueue"
      /\ UNCHANGED <<alertsNamespace, nextId, alertsSockets, accepted, completed>>
      /\ UNCHANGED <<dbVars, tplVars, sysVars>>

\* the event loop runs the callback of a pending fallback timer, t.delay ms
\* after setTimeout armed it
FallbackTimerFires(t) ==
  /\ t \in timers
  /\ Commit(resetAndProcessNext([QueueState EXCEPT !.timers = timers \ {t}]))
  /\ completed' = Append(completed, [id |-> currentAlert.id, by |-> "timeout",
                                     elapsed |-> t.delay, timerFor |-> t.forId])
  /\ ret' = 0
  /\ lastOp' = "fallback"
  /\ UNCHANGED <<alertsNamespace, nextId, alertsSockets, accepted, cleared>>
  /\ UNCHANGED <<dbVars, tplVars, sysVars>>

\* /dashboard alert:trigger handler: forward the payload to /alerts
DashboardAlertTrigger(data) ==
  /\ Commit(Emit(QueueState, Emission("dashboard", data)))
  /\ ret' = 0
  /\ lastOp' = "dashboard alert:trigger"
  /\ UNCHANGED <<alertsNamespace, nextId, alertsSockets, accepted, completed, cleared>>
  /\ UNCHANGED <<dbVars, tplVars, sysVars>>

\* POST /api/test/alert: emitTestAlert()
PostApiTestAlert ==
  /\ Commit(Emit(QueueState, Emission("test", TestAlertPayload)))
  /\ ret' = 0
  /\ lastOp' = "POST /api/test/alert"
  /\ UNCHANGED <<alertsNamespace, nextId, alertsSockets, accepted, completed, cleared>>
  /\ UNCHANGED <<dbVars, tplVars, sysVars>>

\* an overlay client connects to /alerts
AlertsConnect(c) ==
  /\ c \notin alertsSockets
  /\ alertsSockets' = alertsSockets \cup {c}
  /\ UNCHANGED <<queue, currentAlert, isProcessing, fallbackTimer, alertsNamespace,
                 timers, nextTimer, nextId, emitted, accepted, completed,
                 cleared, wire, ret, lastOp>>
  /\ UNCHANGED <<dbVars, tplVars, sysVars>>

\* an overlay client disconnects from /alerts
AlertsDisconnect(c) ==
  /\ c \in alertsSockets
  /\ alertsSockets' = alertsSockets \ {c}
  /\ UNCHANGED <<queue, currentAlert, isProcessing, fallbackTimer, alertsNamespace,
                 timers, nextTimer, nextId, emitted, accepted, completed,
                 cleared, wire, ret, lastOp>>
  /\ UNCHANGED <<dbVars, tplVars, sysVars>>

\* /alerts alert:done handler: a connected overlay client sends alert:done;
\* the handler logs the message
AlertsAlertDone(c, data) ==
  /\ c \in alertsSockets
  /\ ret' = 0
  /\ lastOp' = "alerts alert:done"
  /\ UNCHANGED <<queue, currentAlert, isProcessing, fallbackTimer, alertsNamespace,
                 timers, nextTimer, nextId, alertsSockets, emitted, accepted,
                 completed, cleared, wire>>
  /\ UNCHANGED <<dbVars, tplVars, sysVars>>

Next ==
  \/ \E alertData \in AlertInputs : EnqueueAlert(alertData)
  \/ \E data \in AckPayloads : OnAlertDone(data)
  \/ ClearQueue
  \/ \E t \in timers : FallbackTimerFires(t)
  \/ \E data \in DashboardPayloads : DashboardAlertTrigger(data)
  \/ PostApiTestAlert
  \/ \E c \in OverlayClients : AlertsConnect(c)
  \/ \E c \in OverlayClients : AlertsDisconnect(c)
  \/ \E c \in OverlayClients, data \in AckPayloads : AlertsAlertDone(c, data)

Spec == Init /\ [][Next]_vars

\* the queue and its overlay clients when nothing calls clearQueue (the hub's
\* own emitters do not touch the queue's state)
LiveNext ==
  \/ \E alertData \in AlertInputs : EnqueueAlert(alertData)
  \/ \E data \in AckPayloads : OnAlertDone(data)
  \/ \E t \in timers : FallbackTimerFires(t)
  \/ \E c \in OverlayClients : AlertsConnect(c)
  \/ \E c \in OverlayClients : AlertsDisconnect(c)

\* a pending fallback timer eventually fires: the event loop runs every due
\* timer
LiveSpec ==
  Init /\ [][LiveNext]_vars /\ WF_vars(\E t \in timers : FallbackTimerFires(t))

\* ------------------------------------------------------------------------
\* The alert database module on a database that holds alerts and variations
\* ------------------------------------------------------------------------

QueueUnchanged ==
  UNCHANGED <<queue, currentAlert, isProcessing, fallbackTimer, alertsNamespace,
              timers, nextTimer, nextId, alertsSockets, emitted, wire, accepted,
              completed, cleared, ret, lastOp>>

\* a caller invokes findMatchingAlert(eventType, eventData); the two queries
\* yield rows that tie in the order scan
FindMatchingAlert(eventType, eventData, scan) ==
  LET r == findMatchingAlert(db, scan, eventType, eventData)
  IN  /\ found' = [op |-> "findMatchingAlert", id |-> Null, type |-> eventType,
                   data |-> eventData, result |-> r.result, parent |-> r.parent,
                   evaluated |-> r.evaluated, changed |-> FALSE]
      /\ UNCHANGED <<db, matchCall>>
      /\ UNCHANGED <<tplVars, sysVars>>
      /\ QueueUnchanged

\* a caller invokes deleteAlert(id)
DeleteAlert(id) ==
  LET r == deleteAlert(db, id)
  IN  /\ db' = r.db
      /\ found' = [NoCall EXCEPT !.op = "deleteAlert", !.id = id, !.changed = r.changed]
      /\ UNCHANGED matchCall
      /\ UNCHANGED <<tplVars, sysVars>>
      /\ QueueUnchanged

\* ids deleteAlert is called with: the alerts' and one no alert has
DeleteIds == AlertIds \cup {"a0"}

ResolverInit ==
  /\ queue = <<>>
  /\ currentAlert = NoAlert
  /\ isProcessing = FALSE
  /\ fallbackTimer = 0
  /\ alertsNamespace = TRUE
  /\ timers = {}
  /\ nextTimer = 1
  /\ nextId = 1
  /\ alertsSockets = {}
  /\ emitted = <<>>
  /\ accepted = <<>>
  /\ completed = <<>>
  /\ cleared = {}
  /\ wire = NoEmission
  /\ ret = 0
  /\ lastOp = "init"
  /\ db \in Snapshots
  /\ found = NoCall
  /\ matchCall = NoMatchCall
  /\ templates = BuiltinTemplates
  /\ response = NoResponse
  /\ SysInit

ResolverNext ==
  \/ \E e \in Events, scan \in ScanOrders : FindMatchingAlert(e.type, e.data, scan)
  \/ \E id \in DeleteIds : DeleteAlert(id)

ResolverSpec == ResolverInit /\ [][ResolverNext]_vars

\* ------------------------------------------------------------------------
\* Test alert route (server/routes/test-alert.js): POST /api/test-alert
\* ------------------------------------------------------------------------

TEST_DEFAULTS ==
  [follow |-> [message_template |-> "{username} just followed!", duration_ms |-> 5000],
   subscribe |-> [message_template |-> "{username} just subscribed!", duration_ms |-> 6000],
   cheer |-> [message_template |-> "{username} cheered {amount} bits!", duration_ms |-> 6000],
   raid |-> [message_template |-> "{username} is raiding with {amount} viewers!",
             duration_ms |-> 7000],
   donation |-> [message_template |-> "{username} donated ${amount}!", duration_ms |-> 6000]]

DEFAULT_USERNAMES ==
  {"TestViewer", "StreamFan42", "CoolDude99", "NightOwl_TV",
   "PixelHero", "ChatLurker", "HypeWatcher", "SubGifter3000"}

\* a request body: a field the body lacks is Undefined (type, username,
\* tier) or 0 (amount, duration_ms)
Body(type, username, amount, tier, duration_ms) ==
  [type |-> type, username |-> username, amount |-> amount, tier |-> tier,
   duration_ms |-> duration_ms]

\* the bodies: a cheer of the default amount, a small tier 2 cheer, a big
\* tier 2 cheer with its own duration, and a body with a username only
Bodies ==
  {Body("cheer", "alice", 0, Undefined, 0),
   Body("cheer", "bob", 5, "2", 0),
   Body("cheer", "carol", 100, "2", 2000),
   Body(Undefined, "dave", 0, Undefined, 0)}

\* body.type || 'follow'
BodyType(body) == IF body.type \in {Undefined, ""} THEN "follow" ELSE body.type

\* the eventData the route builds for variation matching
BodyEventData(body) ==
  LET type == BodyType(body)
  IN  [tier |-> IF body.tier \in {Undefined, ""} THEN Null ELSE body.tier,
       amount |-> IF body.amount # 0 THEN body.amount
                  ELSE CASE type = "cheer" -> 100
                         [] type = "raid" -> 50
                         [] type = "donation" -> 5
                         [] OTHER -> AmountNull,
       custom_value |-> Null]

testAlertData_NoDefaults(matched, body, pick) ==
  LET type == BodyType(body)
      eventData == BodyEventData(body)
  IN  IF matched = NoRow
        THEN NonObject(FALSE, "undefined")
        ELSE AlertObject(type,
                         IF body.username \in {Undefined, ""} THEN pick ELSE body.username,
                         IF eventData.amount = AmountNull THEN 0 ELSE eventData.amount,
                         TRUE,
                         [hasDuration |-> TRUE,
                          duration_ms |-> IF body.duration_ms # 0 THEN body.duration_ms
                                          ELSE matched.duration_ms,
                          message_template |-> IF matched.message_template # Null
                                                 THEN matched.message_template
                                                 ELSE "",
                          _variation_id |-> Undefined])

\* the alertData the route passes to enqueueAlert: hardcoded defaults, then
\* the non-null fields of the matched alert (savedConfig), then the body's
\* overrides; matched is NoRow when findMatchingAlert returned null, pick
\* the default username drawn when the body has none
testAlertData(matched, body, pick) ==
  LET type == BodyType(body)
      eventData == BodyEventData(body)
      typeDefaults == IF type \in DOMAIN TEST_DEFAULTS THEN TEST_DEFAULTS[type]
                      ELSE TEST_DEFAULTS.follow
      saved_template == IF matched # NoRow /\ matched.message_template # Null
                          THEN matched.message_template
                          ELSE typeDefaults.message_template
      saved_duration == IF matched # NoRow THEN matched.duration_ms
                        ELSE typeDefaults.duration_ms
  IN  AlertObject(type,
                  IF body.username \in {Undefined, ""} THEN pick ELSE body.username,
                  IF eventData.amount = AmountNull THEN 0 ELSE eventData.amount,
                  TRUE,
                  [hasDuration |-> TRUE,
                   duration_ms |-> IF body.duration_ms # 0 THEN body.duration_ms
                                   ELSE saved_duration,
                   message_template |-> saved_template,
                   _variation_id |-> Undefined])

\* POST /api/test-alert with the given body: findMatchingAlert, then
\* enqueueAlert
PostTestAlert(body, scan, pick) ==
  LET m == findMatchingAlert(db, scan, BodyType(body), BodyEventData(body))
      r == enqueueAlert(QueueState, testAlertData(m.result, body, pick), nextId)
  IN  /\ ret' = r.ret
      /\ r.ret # 0 => nextId <= MaxAlerts
      /\ Commit(r.state)
      /\ nextId' = IF r.ret # 0 THEN nextId + 1 ELSE nextId
      /\ accepted' = IF r.ret # 0
                       THEN Append(accepted, [id |-> r.ret, waited |-> isProcessing])
                       ELSE accepted
      /\ lastOp' = "POST /api/test-alert"
      /\ found' = [op |-> "findMatchingAlert", id |-> Null, type |-> BodyType(body),
                   data |-> BodyEventData(body), result |-> m.result,
                   parent |-> m.parent, evaluated |-> m.evaluated, changed |-> FALSE]
      /\ UNCHANGED <<alertsNamespace, alertsSockets, completed, cleared, db,
                     matchCall>>
      /\ UNCHANGED <<tplVars, sysVars>>

\* the databases the route runs on: one enabled cheer alert, with enabled
\* variations of priority 0 (v1 on the amount, v2 on the tier)
RouteSnapshots ==
  {d \in Snapshots :
     /\ Cardinality(d.alerts) = 1
     /\ \A a \in d.alerts : a.enabled = 1
     /\ \A v \in d.variations :
          v.enabled = 1 /\ v.priority = 0 /\ (v.id = "v2" => v.condition_type = "tier")}

RouteInit ==
  /\ queue = <<>>
  /\ currentAlert = NoAlert
  /\ isProcessing = FALSE
  /\ fallbackTimer = 0
  /\ alertsNamespace = TRUE
  /\ timers = {}
  /\ nextTimer = 1
  /\ nextId = 1
  /\ alertsSockets = {}
  /\ emitted = <<>>
  /\ accepted = <<>>
  /\ completed = <<>>
  /\ cleared = {}
  /\ wire = NoEmission
  /\ ret = 0
  /\ lastOp = "init"
  /\ db \in RouteSnapshots
  /\ found = NoCall
  /\ matchCall = NoMatchCall
  /\ templates = BuiltinTemplates
  /\ response = NoResponse
  /\ SysInit

RouteNext ==
  \/ \E body \in Bodies, scan \in ScanOrders :
       \E pick \in IF body.username \in {Undefined, ""} THEN DEFAULT_USERNAMES
                   ELSE {body.username} :
         PostTestAlert(body, scan, pick)
  \/ \E t \in timers : FallbackTimerFires(t)

RouteSpec == RouteInit /\ [][RouteNext]_vars

\* ------------------------------------------------------------------------
\* Alert CRUD (server/alerts/database.js behind server/routes/alerts.js) on
\* the database of a fresh installation
\* ------------------------------------------------------------------------

\* POST /api/alerts: createAlert(data), uuidv4() returning id
CreateAlert(id, alertData, now) ==
  LET r == createAlert(db, id, alertData, now)
  IN  /\ id \notin {a.id : a \in db.alerts}
      /\ db' = r.db
      /\ found' = CrudCall("createAlert", id, NoRow, r)
      /\ UNCHANGED matchCall
      /\ UNCHANGED <<tplVars, sysVars>>
      /\ QueueUnchanged

\* PUT /api/alerts/:id: updateAlert(id, data) with the fields of the body
\* that ALERT_FIELDS names
UpdateAlert(id, updates) ==
  LET r == updateAlert(db, id, updates)
  IN  /\ db' = r.db
      /\ found' = CrudCall("updateAlert", id, NoRow, r)
      /\ UNCHANGED matchCall
      /\ UNCHANGED <<tplVars, sysVars>>
      /\ QueueUnchanged

\* POST /api/alerts/:id/variations: createAlertVariation(data), uuidv4()
\* returning id
CreateAlertVariation(id, variationData, now) ==
  LET r == createAlertVariation(db, id, variationData, now)
  IN  /\ id \notin {v.id : v \in db.variations}
      /\ db' = r.db
      /\ found' = CrudCall("createAlertVariation", id,
                           getAlertById(db, variationData.parent_alert_id), r)
      /\ UNCHANGED matchCall
      /\ UNCHANGED <<tplVars, sysVars>>
      /\ QueueUnchanged

\* PUT /api/alerts/variations/:id: updateAlertVariation(id, data)
UpdateAlertVariation(id, updates) ==
  LET r == updateAlertVariation(db, id, updates)
  IN  /\ db' = r.db
      /\ found' = CrudCall("updateAlertVariation", id, NoRow, r)
      /\ UNCHANGED matchCall
      /\ UNCHANGED <<tplVars, sysVars>>
      /\ QueueUnchanged

\* DELETE /api/alerts/variations/:id: deleteAlertVariation(id)
DeleteAlertVariation(id) ==
  LET r == deleteAlertVariation(db, id)
  IN  /\ db' = r.db
      /\ found' = CrudCall("deleteAlertVariation", id, NoRow, r)
      /\ UNCHANGED matchCall
      /\ UNCHANGED <<tplVars, sysVars>>
      /\ QueueUnchanged

CrudNext ==
  \/ \E id \in AlertIds, alertData \in CreateAlertInputs :
       CreateAlert(id, alertData, CrudTime)
  \/ \E id \in DeleteIds, updates \in UpdateAlertInputs : UpdateAlert(id, updates)
  \/ \E id \in DeleteIds : DeleteAlert(id)
  \/ \E id \in VariationIds, variationData \in CreateVariationInputs :
       CreateAlertVariation(id, variationData, CrudTime)
  \/ \E id \in VariationIds \cup {"v0"}, updates \in UpdateVariationInputs :
       UpdateAlertVariation(id, updates)
  \/ \E id \in VariationIds \cup {"v0"} : DeleteAlertVariation(id)

CrudSpec == Init /\ [][CrudNext]_vars

\* ------------------------------------------------------------------------
\* Variation matching: doesVariationMatch applied to a variation and an
\* event
\* ------------------------------------------------------------------------

\* a caller invokes doesVariationMatch(variation, eventData)
DoesVariationMatch(variation, eventData) ==
  /\ matchCall' = [called |-> TRUE, variation |-> variation, eventData |-> eventData,
                   result |-> doesVariationMatch(variation, eventData)]
  /\ UNCHANGED <<db, found>>
  /\ UNCHANGED <<tplVars, sysVars>>
  /\ QueueUnchanged

MatchNext ==
  \E variation \in MatchVariations, eventData \in MatchEvents :
    DoesVariationMatch(variation, eventData)

MatchSpec == Init /\ [][MatchNext]_vars

\* ------------------------------------------------------------------------
\* Template routes (server/routes/templates.js) on the migrated database
\* ------------------------------------------------------------------------

\* GET /api/templates/:id
GetTemplate(id) ==
  LET template == getTemplateById(templates, id)
  IN  /\ response' = IF template = NoTemplate
                       THEN Response("GET", id, 404, "Template not found", NoTemplate)
                       ELSE Response("GET", id, 200, "", template)
      /\ UNCHANGED templates
      /\ UNCHANGED <<dbVars, sysVars>>
      /\ QueueUnchanged

\* POST /api/templates with the given body, at time now; uuidv4() returns id
PostTemplate(body, id, now) ==
  /\ id \notin {r.id : r \in templates}
  /\ IF \/ body.name \in {Undefined, Null, ""}
        \/ body.template_data.typeof = "undefined"
        \/ body.template_data = JsString("")
       THEN /\ response' = Response("POST", Null, 400,
                                    "name and template_data are required", NoTemplate)
            /\ UNCHANGED templates
       ELSE LET r == createTemplate(templates, id, body, now)
            IN  /\ templates' = r.rows
                /\ response' = Response("POST", id, 200, "",
                                        getTemplateById(r.rows, id))
  /\ UNCHANGED <<dbVars, sysVars>>
  /\ QueueUnchanged

\* PUT /api/templates/:id with the given body, at time now
PutTemplate(id, body, now) ==
  LET r == updateTemplate(templates, id, body, now)
  IN  /\ templates' = r.rows
      /\ response' = IF r.threw = "" THEN Response("PUT", id, 200, "", r.result)
                     ELSE Response("PUT", id,
                                   IF IncludesBuiltIn(r.threw) THEN 403 ELSE 500,
                                   r.threw, NoTemplate)
      /\ UNCHANGED <<dbVars, sysVars>>
      /\ QueueUnchanged

\* DELETE /api/templates/:id
DeleteTemplate(id) ==
  LET r == deleteTemplate(templates, id)
  IN  /\ templates' = r.rows
      /\ response' = IF r.threw = "" THEN Response("DELETE", id, 200, "", NoTemplate)
                     ELSE Response("DELETE", id,
                                   IF IncludesBuiltIn(r.threw) THEN 403
                                   ELSE IF IncludesNotFound(r.threw) THEN 404
                                   ELSE 500,
                                   r.threw, NoTemplate)
      /\ UNCHANGED <<dbVars, sysVars>>
      /\ QueueUnchanged

TemplateInit ==
  /\ queue = <<>>
  /\ currentAlert = NoAlert
  /\ isProcessing = FALSE
  /\ fallbackTimer = 0
  /\ alertsNamespace = TRUE
  /\ timers = {}
  /\ nextTimer = 1
  /\ nextId = 1
  /\ alertsSockets = {}
  /\ emitted = <<>>
  /\ accepted = <<>>
  /\ completed = <<>>
  /\ cleared = {}
  /\ wire = NoEmission
  /\ ret = 0
  /\ lastOp = "init"
  /\ db = EmptyDb
  /\ found = NoCall
  /\ matchCall = NoMatchCall
  /\ templates = BuiltinTemplates
  /\ response = NoResponse
  /\ SysInit

TemplateNext ==
  \/ \E id \in TemplateIds : GetTemplate(id)
  \/ \E body \in CreateBodies, id \in UserTemplateIds, now \in Times :
       PostTemplate(body, id, now)
  \/ \E id \in TemplateIds, body \in UpdateBodies, now \in Times :
       PutTemplate(id, body, now)
  \/ \E id \in TemplateIds : DeleteTemplate(id)

TemplateSpec == TemplateInit /\ [][TemplateNext]_vars

\* ------------------------------------------------------------------------
\* Database startup: each start of the server opens the database file and
\* runs the pending migrations
\* ------------------------------------------------------------------------

\* initDatabase(): a new connection (foreign_keys off), the foreign_keys
\* pragma, then runMigrations()
InitDatabase(listing, failing, now) ==
  LET opened == MigrationState(migrations, schema, FALSE, <<>>, FALSE)
      r == runMigrations(pragmaForeignKeys(opened, TRUE, FALSE), listing, failing, now)
  IN  /\ Len(migrationRuns) < MaxRuns
      /\ migrations' = r.migrations
      /\ schema' = r.schema
      /\ foreignKeys' = r.foreign_keys
      /\ migrationRuns' = Append(migrationRuns, MigrationRun(migrations, r))
      /\ UNCHANGED <<dbVars, tplVars, logVars, procVars, hubVars>>
      /\ QueueUnchanged

\* the scripts of the directory
SqlFiles == {f \in MigrationsDir : f.ext = "sql"}

MigrationNext ==
  \E listing \in Listings, failing \in SUBSET SqlFiles, now \in Times :
    InitDatabase(listing, failing, now)

MigrationSpec == Init /\ [][MigrationNext]_vars

\* ------------------------------------------------------------------------
\* The server process: startServer(), the hub, and shutdown
\* ------------------------------------------------------------------------

\* index.js is loaded and startServer() runs up to its first await:
\* findProjectRoot(), initDatabase() inside its try block, and the test of
\* the default port is started
StartServer(listing, failing, now) ==
  LET opened == MigrationState(migrations, schema, FALSE, <<>>, FALSE)
      r == runMigrations(pragmaForeignKeys(opened, TRUE, FALSE), listing, failing, now)
  IN  /\ pc = "load"
      /\ Len(migrationRuns) < MaxRuns
      /\ migrations' = r.migrations
      /\ schema' = r.schema
      /\ foreignKeys' = r.foreign_keys
      /\ migrationRuns' = Append(migrationRuns, MigrationRun(migrations, r))
      /\ dbOpen' = TRUE
      /\ stdout' = <<Line("[Server] Project root")>> \o DatabaseLines(r)
      /\ port' = DefaultPort
      /\ pc' = "probeDefault"
      /\ UNCHANGED <<busyPorts, probes, serverPort, exitCode, shutdownSteps, forceTimers>>
      /\ UNCHANGED <<dbVars, tplVars, logVars, hubVars>>
      /\ QueueUnchanged

\* isPortAvailable(port) answers, and findAvailablePort goes on: it returns
\* the port when it is free, tests the next port of the range otherwise,
\* and returns 0 when the range is done
ProbeResult ==
  LET free == port \notin busyPorts
      next == nextRangePort(IF pc = "probeDefault" THEN PortRangeMin ELSE port + 1)
      busyLine == IF pc = "probeDefault"
                    THEN <<Line("[Server] Default port is busy")>> ELSE <<>>
  IN  /\ pc \in {"probeDefault", "probeRange"}
      /\ probes' = Append(probes, [port |-> port, free |-> free])
      /\ IF free
           THEN pc' = "listen" /\ UNCHANGED <<port, stdout>>
           ELSE IF next = 0
             THEN /\ pc' = "listen"
                  /\ port' = 0
                  /\ stdout' = stdout \o busyLine
                                 \o <<Line("[Server] No ports available")>>
             ELSE /\ pc' = "probeRange"
                  /\ port' = next
                  /\ stdout' = stdout \o busyLine
      /\ UNCHANGED <<busyPorts, serverPort, dbOpen, exitCode, shutdownSteps, forceTimers>>
      /\ UNCHANGED <<dbVars, tplVars, logVars, migVars, hubVars>>
      /\ QueueUnchanged

\* httpServer.listen(port) completes: the listen callback runs with the
\* port bound (assigned, when 0 was requested), or the server emits an
\* error no listener handles and the uncaughtException handler exits
Listen(assigned) ==
  /\ pc = "listen"
  /\ assigned \in (IF port = 0 THEN EphemeralPorts ELSE {port})
  /\ IF assigned \in busyPorts
       THEN /\ pc' = "exited"
            /\ exitCode' = 1
            /\ UNCHANGED <<serverPort, stdout>>
       ELSE /\ pc' = "running"
            /\ serverPort' = assigned
            /\ stdout' = stdout \o BannerLines(assigned)
            /\ UNCHANGED exitCode
  /\ UNCHANGED <<busyPorts, probes, port, dbOpen, shutdownSteps, forceTimers>>
  /\ UNCHANGED <<dbVars, tplVars, logVars, migVars, hubVars>>
  /\ QueueUnchanged

\* another process binds a port of the range while the server starts
PortTaken(p) ==
  /\ pc \in {"load", "probeDefault", "probeRange", "listen"}
  /\ p \notin busyPorts
  /\ busyPorts' = busyPorts \cup {p}
  /\ UNCHANGED <<pc, stdout, probes, port, serverPort, dbOpen, exitCode,
                 shutdownSteps, forceTimers>>
  /\ UNCHANGED <<dbVars, tplVars, logVars, migVars, hubVars>>
  /\ QueueUnchanged

\* another process releases a port of the range while the server starts
PortReleased(p) ==
  /\ pc \in {"load", "probeDefault", "probeRange", "listen"}
  /\ p \in busyPorts
  /\ busyPorts' = busyPorts \ {p}
  /\ UNCHANGED <<pc, stdout, probes, port, serverPort, dbOpen, exitCode,
                 shutdownSteps, forceTimers>>
  /\ UNCHANGED <<dbVars, tplVars, logVars, migVars, hubVars>>
  /\ QueueUnchanged

\* a client connects to the namespace ns: the connection handler
Connect(ns, c) ==
  /\ pc = "running"
  /\ c \notin connected[ns]
  /\ connected' = [connected EXCEPT ![ns] = @ \cup {c}]
  /\ clientCounts' = onConnection(clientCounts, ns)
  /\ broadcast' = <<HubMessage(ns, "welcome", "object")>>
  /\ UNCHANGED <<wsStatus, received>>
  /\ UNCHANGED <<dbVars, tplVars, logVars, migVars, procVars>>
  /\ QueueUnchanged

\* a socket of the namespace ns disconnects: the disconnect handler
Disconnect(ns, c) ==
  /\ pc = "running"
  /\ c \in connected[ns]
  /\ connected' = [connected EXCEPT ![ns] = @ \ {c}]
  /\ clientCounts' = onDisconnect(clientCounts, ns)
  /\ UNCHANGED <<wsStatus, broadcast, received>>
  /\ UNCHANGED <<dbVars, tplVars, logVars, migVars, procVars>>
  /\ QueueUnchanged

\* GET /api/ws/status
GetWsStatus ==
  /\ pc = "running"
  /\ wsStatus' = WsStatus(clientCounts)
  /\ UNCHANGED <<clientCounts, connected, broadcast, received>>
  /\ UNCHANGED <<dbVars, tplVars, logVars, migVars, procVars>>
  /\ QueueUnchanged

\* a connected client sends an event of namespaceEvents: socket.on(event,
\* (data) => handler(socket, data)). A handler that passes an
\* acknowledgement callback on to namespace.emit throws or not, by the
\* socket.io release; nothing catches it, and the uncaughtException handler
\* calls process.exit(1)
ClientMessage(h, c, data, throws) ==
  /\ pc = "running"
  /\ c \in connected[h.namespace]
  /\ throws => h.forwards /\ data = "callback"
  /\ received' = HubMessage(h.namespace, h.event, data)
  /\ IF throws
       THEN /\ pc' = "exited"
            /\ exitCode' = 1
            /\ broadcast' = NoBroadcast
       ELSE /\ broadcast' = handlerEmits(h, data)
            /\ UNCHANGED <<pc, exitCode>>
  /\ UNCHANGED <<stdout, busyPorts, probes, port, serverPort, dbOpen,
                 shutdownSteps, forceTimers>>
  /\ UNCHANGED <<clientCounts, connected, wsStatus>>
  /\ UNCHANGED <<dbVars, tplVars, logVars, migVars>>
  /\ QueueUnchanged

\* SIGINT or SIGTERM: shutdown(signal) closes the database, calls
\* io.close(), which closes the sockets of every namespace and then the
\* HTTP server, and sets the force-exit timer
Shutdown ==
  /\ pc \in {"running", "shutdown"}
  /\ forceTimers < MaxSignals
  /\ dbOpen' = FALSE
  /\ shutdownSteps' = shutdownSteps
                        \o (IF dbOpen THEN <<"closeDatabase">> ELSE <<>>)
                        \o (IF pc = "running" THEN <<"closeSockets", "closeHttp">>
                            ELSE <<>>)
  /\ clientCounts' = closeSockets(clientCounts, connected, 1)
  /\ connected' = [ns \in Namespaces |-> {}]
  /\ forceTimers' = forceTimers + 1
  /\ pc' = "shutdown"
  /\ UNCHANGED <<stdout, busyPorts, probes, port, serverPort, exitCode>>
  /\ UNCHANGED <<wsStatus, broadcast, received>>
  /\ UNCHANGED <<dbVars, tplVars, logVars, migVars>>
  /\ QueueUnchanged

\* the HTTP server's connections have ended: the callbacks of io.close and
\* httpServer.close run, and process.exit(0)
Drained ==
  /\ pc = "shutdown"
  /\ pc' = "exited"
  /\ exitCode' = 0
  /\ UNCHANGED <<stdout, busyPorts, probes, port, serverPort, dbOpen,
                 shutdownSteps, forceTimers>>
  /\ UNCHANGED <<dbVars, tplVars, logVars, migVars, hubVars>>
  /\ QueueUnchanged

\* a force-exit timer fires, 5 s after its signal: process.exit(1)
ForceExit ==
  /\ pc = "shutdown"
  /\ forceTimers > 0
  /\ pc' = "exited"
  /\ exitCode' = 1
  /\ UNCHANGED <<stdout, busyPorts, probes, port, serverPort, dbOpen,
                 shutdownSteps, forceTimers>>
  /\ UNCHANGED <<dbVars, tplVars, logVars, migVars, hubVars>>
  /\ QueueUnchanged

\* the process from its start to its exit, on a host whose ports change
\* while it starts, with one overlay client
ServerNext ==
  \/ \E listing \in Listings, failing \in {{}, SqlFiles}, now \in Times :
       StartServer(listing, failing, now)
  \/ ProbeResult
  \/ \E assigned \in RangePorts \cup EphemeralPorts : Listen(assigned)
  \/ \E p \in RangePorts : PortTaken(p)
  \/ \E p \in RangePorts : PortReleased(p)
  \/ \E ns \in Namespaces, c \in OverlayClients : Connect(ns, c)
  \/ \E ns \in Namespaces, c \in OverlayClients : Disconnect(ns, c)
  \/ Shutdown
  \/ Drained
  \/ ForceExit

ServerSpec == Init /\ [][ServerNext]_vars

\* the time of the start of the servers whose hub is observed
StartTime == "2024-01-02T00:00:00.000Z"

\* the connections of the hub of a server that started on a host with free
\* ports and a database whose migrations apply
HubNext ==
  \/ \E listing \in Listings : StartServer(listing, {}, StartTime)
  \/ ProbeResult
  \/ \E assigned \in RangePorts : Listen(assigned)
  \/ \E ns \in Namespaces, c \in HubClients : Connect(ns, c)
  \/ \E ns \in Namespaces, c \in HubClients : Disconnect(ns, c)
  \/ GetWsStatus

HubSpec == Init /\ [][HubNext]_vars

\* the messages of one client to the hub of such a server
DispatchNext ==
  \/ \E listing \in Listings : StartServer(listing, {}, StartTime)
  \/ ProbeResult
  \/ \E assigned \in RangePorts : Listen(assigned)
  \/ \E ns \in Namespaces, c \in OverlayClients : Connect(ns, c)
  \/ \E ns \in Namespaces, c \in OverlayClients : Disconnect(ns, c)
  \/ \E h \in namespaceEvents, c \in OverlayClients, data \in ClientData,
        throws \in BOOLEAN : ClientMessage(h, c, data, throws)

DispatchSpec == Init /\ [][DispatchNext]_vars

\* ------------------------------------------------------------------------
\* The alert queue inside the process: alerts are enqueued while the server
\* runs, and the event loop runs the queue's timers until the process exits
\* ------------------------------------------------------------------------

QueueShutdownNext ==
  \/ \E listing \in Listings : StartServer(listing, {}, StartTime)
  \/ ProbeResult
  \/ \E assigned \in RangePorts : Listen(assigned)
  \/ \E alertData \in AlertInputs : pc = "running" /\ EnqueueAlert(alertData)
  \/ \E t \in timers : pc \in {"running", "shutdown"} /\ FallbackTimerFires(t)
  \/ Shutdown
  \/ Drained
  \/ ForceExit

QueueShutdownSpec == Init /\ [][QueueShutdownNext]_vars

\* ------------------------------------------------------------------------
\* The event logger, called while the process lives: before and after the
\* database is closed, with and without the event_log table
\* ------------------------------------------------------------------------

\* the frame of a call of the logger
LoggerFrame ==
  /\ UNCHANGED <<dbVars, tplVars, migVars, procVars, hubVars>>
  /\ QueueUnchanged

\* a caller invokes logEvent(eventData)
LogEvent(eventData, id, now) ==
  LET r == logEvent(eventLog, StoreReady(dbOpen, schema), eventData, id, now)
  IN  /\ pc \notin {"load", "exited"}
      /\ id \notin {row.id : row \in eventLog}
      /\ eventLog' = r.rows
      /\ logResult' = Called(r)
      /\ logAttempts' = logAttempts
                          \cup {[event_type |-> eventData.event_type,
                                 username |-> eventData.username]}
      /\ LoggerFrame

\* a caller invokes getRecentEvents(options)
GetRecentEvents(options, scan) ==
  LET r == getRecentEvents(eventLog, StoreReady(dbOpen, schema), options, scan)
  IN  /\ pc \notin {"load", "exited"}
      /\ eventLog' = r.rows
      /\ logResult' = Called(r)
      /\ UNCHANGED logAttempts
      /\ LoggerFrame

\* GET /api/events?limit=<parsed>: getRecentEvents with the limit of the
\* route and no filter
GetApiEvents(parsed, scan) ==
  LET options == LogOptions(routeLimit(parsed), Null, Null, FALSE, Null)
      r == getRecentEvents(eventLog, StoreReady(dbOpen, schema), options, scan)
  IN  /\ pc = "running"
      /\ eventLog' = r.rows
      /\ logResult' = [Called(r) EXCEPT !.op = "GET /api/events"]
      /\ UNCHANGED logAttempts
      /\ LoggerFrame

\* a caller invokes getEventsByDateRange(startDate, endDate)
GetEventsByDateRange(startDate, endDate, scan) ==
  LET r == getEventsByDateRange(eventLog, StoreReady(dbOpen, schema), startDate,
                                endDate, scan)
  IN  /\ pc \notin {"load", "exited"}
      /\ eventLog' = r.rows
      /\ logResult' = Called(r)
      /\ UNCHANGED logAttempts
      /\ LoggerFrame

\* a caller invokes pruneOldEvents() at time now
PruneOldEvents(now) ==
  LET r == pruneOldEvents(eventLog, StoreReady(dbOpen, schema), now)
  IN  /\ pc \notin {"load", "exited"}
      /\ eventLog' = r.rows
      /\ logResult' = Called(r)
      /\ UNCHANGED logAttempts
      /\ LoggerFrame

LoggerNext ==
  \/ \E listing \in Listings, failing \in {{}, SqlFiles} :
       StartServer(listing, failing, StartTime)
  \/ ProbeResult
  \/ \E assigned \in RangePorts : Listen(assigned)
  \/ Shutdown
  \/ \E eventData \in LogInputs, id \in EventIds, now \in Times :
       LogEvent(eventData, id, now)
  \/ \E options \in ListOptions, scan \in Perms(EventIds) :
       GetRecentEvents(options, scan)
  \/ \E parsed \in QueryLimits, scan \in Perms(EventIds) :
       GetApiEvents(parsed, scan)
  \/ \E startDate \in Times, endDate \in Times, scan \in Perms(EventIds) :
       GetEventsByDateRange(startDate, endDate, scan)
  \/ \E now \in PruneTimes : PruneOldEvents(now)

LoggerSpec == Init /\ [][LoggerNext]_vars

\* ------------------------------------------------------------------------
\* Vocabulary of the properties
\* ------------------------------------------------------------------------

AcceptedIds == {accepted[i].id : i \in DOMAIN accepted}

PendingIds == {queue[i].id : i \in DOMAIN queue}

EmittedIds == {emitted[i].payload.id : i \in DOMAIN emitted}

CompletedIds == {completed[i].id : i \in DOMAIN completed}

CurrentIds == IF currentAlert.id # 0 THEN {currentAlert.id} ELSE {}

\* position of an instance in the order of enqueue (0: never accepted)
AcceptPos(id) ==
  IF id \in AcceptedIds THEN CHOOSE k \in DOMAIN accepted : accepted[k].id = id ELSE 0

Idle ==
  /\ currentAlert.id = 0
  /\ ~isProcessing
  /\ fallbackTimer = 0
  /\ timers = {}
  /\ queue = <<>>

\* the queue's own state and what it put on the wire
QueueVars == <<queue, currentAlert, isProcessing, fallbackTimer, timers, emitted, wire>>

\* ------------------------------------------------------------------------
\* Properties
\* ------------------------------------------------------------------------

\* C1: while an instance stays current (from its alert:trigger to its
\* completion), no step of the server puts another alert:trigger on /alerts.
C1_TotalOrder ==
  [][(currentAlert.id # 0 /\ currentAlert'.id = currentAlert.id) => wire' = wire]_vars

\* C2: at most one instance has been popped and emitted and is not yet
\* completed, and that instance is currentAlert.
C2_AtMostOneCurrent ==
  /\ Cardinality(EmittedIds \ CompletedIds) <= 1
  /\ (EmittedIds \ CompletedIds) = CurrentIds

C2_Witness ==
  /\ currentAlert.id # 0
  /\ Len(queue) >= 1
  /\ Len(completed) >= 1

\* C3: without clearQueue, the queue ends idle with every accepted instance
\* emitted and completed (by an accepted ack or by its fallback timer).
C3_Liveness ==
  <>[](/\ Idle
       /\ AcceptedIds \subseteq EmittedIds
       /\ AcceptedIds \subseteq CompletedIds
       /\ \A i \in DOMAIN completed : completed[i].by \in {"ack", "timeout"})

C3_Witness ==
  /\ Len(accepted) >= 3
  /\ Len(completed) = Len(accepted)
  /\ AcceptedIds = EmittedIds
  /\ \E i \in DOMAIN completed : completed[i].by = "ack"
  /\ \E i \in DOMAIN completed : completed[i].by = "timeout"
  /\ Idle

\* C4: strict FIFO: instances are emitted and completed in the order of
\* enqueue, an instance is completed before its successor is emitted, and
\* the pending queue stays in the order of enqueue.
C4_Fifo ==
  /\ \A i, j \in DOMAIN completed :
       i < j => AcceptPos(completed[i].id) < AcceptPos(completed[j].id)
  /\ \A i, j \in DOMAIN emitted :
       i < j => /\ AcceptPos(emitted[i].payload.id) < AcceptPos(emitted[j].payload.id)
                /\ emitted[i].payload.id \in CompletedIds
  /\ \A i, j \in DOMAIN queue :
       i < j => AcceptPos(queue[i].id) < AcceptPos(queue[j].id)
  /\ \A i \in DOMAIN queue :
       currentAlert.id # 0 => AcceptPos(currentAlert.id) < AcceptPos(queue[i].id)

C4_Witness ==
  /\ Len(completed) >= 3
  /\ \E i, j \in DOMAIN emitted :
       /\ emitted[i].payload.type # emitted[j].payload.type
       /\ emitted[i].payload.amount # emitted[j].payload.amount

\* C5: onAlertDone changes nothing and emits nothing when no instance is
\* current, or when the payload carries an alertId other than the current
\* instance's id.
C5_StaleAckNoOp ==
  [][\A data \in AckPayloads :
       (/\ lastOp' = "onAlertDone"
        /\ OnAlertDone(data)
        /\ \/ currentAlert.id = 0
           \/ (data.alertId # 0 /\ data.alertId # currentAlert.id))
       => (UNCHANGED QueueVars /\ completed' = completed)]_vars

C5_Witness ==
  /\ lastOp = "onAlertDone"
  /\ currentAlert.id # 0
  /\ Len(completed) >= 1
  /\ \A i \in DOMAIN completed : completed[i].by = "timeout"

\* C6: each emitted instance is completed exactly once: a pending timer is
\* always the current instance's, a timeout completes the instance its timer
\* was armed for, and an ack naming a timed-out instance changes nothing.
C6_CompletionOnce ==
  /\ [](/\ \A i, j \in DOMAIN completed : i # j => completed[i].id # completed[j].id
        /\ \A i \in DOMAIN completed :
             /\ completed[i].id \in EmittedIds
             /\ completed[i].by = "timeout" => completed[i].timerFor = completed[i].id
        /\ \A t \in timers : t.forId = currentAlert.id /\ t.handle = fallbackTimer
        /\ Len(emitted) = Len(completed) + Cardinality(CurrentIds))
  /\ [][\A data \in AckPayloads :
          (/\ lastOp' = "onAlertDone"
           /\ OnAlertDone(data)
           /\ data.alertId \in CompletedIds
           /\ data.alertId # currentAlert.id)
          => (UNCHANGED QueueVars /\ completed' = completed)]_vars

C6_Witness ==
  /\ lastOp = "onAlertDone"
  /\ currentAlert.id # 0
  /\ Len(completed) >= 2
  /\ completed[1].by = "ack"
  /\ completed[Len(completed)].by = "timeout"

\* C7: clearQueue returns the number of pending instances, empties the
\* pending queue and leaves currentAlert, isProcessing and the fallback timer
\* alone; it emits nothing.
C7_ClearFrame ==
  [][(lastOp' = "clearQueue" /\ ClearQueue) =>
       /\ ret' = Len(queue)
       /\ queue' = <<>>
       /\ UNCHANGED <<currentAlert, isProcessing, fallbackTimer, timers, emitted, wire>>]_vars

C7_Witness ==
  /\ lastOp = "clearQueue"
  /\ ret = 2
  /\ queue = <<>>
  /\ currentAlert.id # 0
  /\ timers # {}

\* C8: every accepted instance is in exactly one of pending, current,
\* completed, cleared; it is emitted at most once; a cleared instance is
\* never emitted; with nothing current the queue is idle.
C8_NoLossNoDup ==
  /\ AcceptedIds = PendingIds \cup CurrentIds \cup CompletedIds \cup cleared
  /\ PendingIds \cap CurrentIds = {}
  /\ PendingIds \cap CompletedIds = {}
  /\ PendingIds \cap cleared = {}
  /\ CurrentIds \cap CompletedIds = {}
  /\ CurrentIds \cap cleared = {}
  /\ CompletedIds \cap cleared = {}
  /\ Cardinality(PendingIds) = Len(queue)
  /\ Cardinality(EmittedIds) = Len(emitted)
  /\ EmittedIds \cap cleared = {}
  /\ currentAlert.id = 0 => Idle

C8_Witness ==
  /\ Cardinality(cleared) = 2
  /\ Len(completed) = 1
  /\ Len(emitted) = 1
  /\ Idle

\* the inputs the claim names invalid
C9_Invalid(a) ==
  \/ ~a.truthy
  \/ a.typeof # "object"
  \/ a.type \in {Undefined, Null, ""}
  \/ a.username \in {Undefined, Null, ""}

\* C9: enqueueAlert returns null and changes nothing on an invalid input;
\* on any other input it returns a new id and adds exactly one instance,
\* carrying that id, behind everything already enqueued.
C9_Validation ==
  [][lastOp' = "enqueueAlert" => \A a \in AlertInputs :
       EnqueueAlert(a) =>
         IF C9_Invalid(a)
           THEN ret' = 0 /\ UNCHANGED QueueVars /\ accepted' = accepted
           ELSE /\ ret' # 0
                /\ ret' \notin AcceptedIds
                /\ IF currentAlert.id # 0
                     THEN /\ Len(queue') = Len(queue) + 1
                          /\ SubSeq(queue', 1, Len(queue)) = queue
                          /\ queue'[Len(queue')].id = ret'
                          /\ queue'[Len(queue')].type = a.type
                          /\ queue'[Len(queue')].username = a.username
                          /\ currentAlert' = currentAlert
                     ELSE /\ queue' = queue
                          /\ currentAlert'.id = ret'
                          /\ currentAlert'.type = a.type
                          /\ currentAlert'.username = a.username]_vars

C9_Witness ==
  /\ lastOp = "enqueueAlert"
  /\ ret = 0
  /\ currentAlert.id # 0
  /\ Len(queue) >= 1

RECURSIVE ElapsedBefore(_)
\* ms between the first emission and the k-th, when each instance was
\* emitted as its predecessor completed
ElapsedBefore(k) ==
  IF k <= 1 THEN 0 ELSE ElapsedBefore(k - 1) + completed[k - 1].elapsed

\* every instance but the first waited in the pending queue, none was
\* cleared, and no ack was accepted
OnlyFallbacks ==
  /\ cleared = {}
  /\ \A i \in DOMAIN accepted : i > 1 => accepted[i].waited
  /\ \A i \in DOMAIN completed : completed[i].by = "timeout"

\* C10 as stated: the delay is config.duration_ms + 1000 ms.
C10_Original ==
  /\ Cardinality(timers) = Cardinality(CurrentIds)
  /\ \A t \in timers : t.delay = currentAlert.config.duration_ms + 1000
  /\ \A d \in {0, 1000} :
       (OnlyFallbacks /\ \A i \in DOMAIN emitted : emitted[i].payload.config.duration_ms = d)
       => \A k \in DOMAIN emitted : ElapsedBefore(k) = (k - 1) * (d + 1000)
  /\ (cleared = {} /\ Len(completed) = Len(accepted)) => Idle

\* the duration the fallback delay is computed from: a zero duration_ms
\* counts as the default 5000 ms
C10_Duration(d) == IF d = 0 THEN 5000 ELSE d

\* C10, amended: exactly one fallback timer is pending per current instance,
\* its delay is the effective duration + 1000 ms; with fallbacks only, the
\* k-th of n instances of duration d is emitted (k-1) * (effective d + 1000)
\* ms after the first, and the queue is idle after the n-th firing.
C10_FallbackDelay ==
  /\ Cardinality(timers) = Cardinality(CurrentIds)
  /\ \A t \in timers :
       t.delay = C10_Duration(currentAlert.config.duration_ms) + 1000
  /\ \A d \in {0, 1000} :
       (OnlyFallbacks /\ \A i \in DOMAIN emitted : emitted[i].payload.config.duration_ms = d)
       => \A k \in DOMAIN emitted : ElapsedBefore(k) = (k - 1) * (C10_Duration(d) + 1000)
  /\ (cleared = {} /\ Len(completed) = Len(accepted)) => Idle

C10_Witness ==
  /\ alertsSockets = {}
  /\ OnlyFallbacks
  /\ Len(accepted) >= 3
  /\ Len(completed) = Len(accepted)
  /\ \A i \in DOMAIN emitted : emitted[i].payload.config.duration_ms = 1000
  /\ ElapsedBefore(3) = 4000
  /\ Idle

\* C11: an alert:done message a client sends on /alerts naming the current
\* instance completes it: current is cleared and the queue advances; when
\* it was the only instance the queue is left idle with length 0.
C11_AckForwarded ==
  [][lastOp' = "alerts alert:done" =>
       \A c \in OverlayClients, data \in AckPayloads :
         (/\ AlertsAlertDone(c, data)
          /\ currentAlert.id # 0
          /\ data.alertId = currentAlert.id)
         => /\ currentAlert'.id # currentAlert.id
            /\ queue = <<>> => (Len(queue') = 0 /\ currentAlert'.id = 0)]_vars

\* the alert row with the id of the result of the last findMatchingAlert
ResultParent == CHOOSE a \in db.alerts : a.id = found.result.id

\* the enabled variations of the alert a that match the event data
MatchingVariations(a, data) ==
  {v \in db.variations :
     v.parent_alert_id = a.id /\ v.enabled = 1 /\ doesVariationMatch(v, data)}

\* the alert's min_amount is set and the event's amount is a number below it
C12_Below(a, data) ==
  /\ a.min_amount # NullAmount
  /\ data.amount >= 0
  /\ data.amount < a.min_amount

C13_Candidates ==
  {a \in db.alerts :
     /\ a.type = found.type
     /\ a.enabled = 1
     /\ \/ a.min_amount = NullAmount
        \/ found.data.amount = AmountUndefined
        \/ NumberOfAmount(found.data.amount) >= a.min_amount}

C14_PriorityThenCreatedAt ==
  (found.op = "findMatchingAlert" /\ found.result # NoRow) =>
    LET M == MatchingVariations(ResultParent, found.data)
    IN  IF M = {}
          THEN found.result._variation_id = Undefined
          ELSE \E v \in M :
                 /\ found.result._variation_id = v.id
                 /\ \A w \in M :
                      \/ w.priority < v.priority
                      \/ w.priority = v.priority /\ w.created_at >= v.created_at

\* the fields the claim lets a variation override
C15_Overridable ==
  {"message_template", "sound_path", "sound_volume", "image_path",
   "animation_in", "animation_out", "custom_css"}

\* C15: a merged result takes each overridable field from the variation
\* when the variation's value is non-null and from the parent otherwise,
\* every other field from the parent, and names the variation; the parent
\* and variation rows are still in the database as they were.
C15_MergeVariation ==
  (found.op = "findMatchingAlert" /\ found.result._variation_id # Undefined) =>
    /\ \E a \in db.alerts : a.id = found.result.id
    /\ ResultParent = found.parent
    /\ \E v \in db.variations :
         /\ v.id = found.result._variation_id
         /\ found.result._variation_name = v.name
         /\ \A f \in C15_Overridable :
              found.result[f] = IF v[f] # Null THEN v[f] ELSE ResultParent[f]
         /\ \A f \in (DOMAIN ResultParent) \ (C15_Overridable \cup {"_variation_id", "_variation_name"}) :
              found.result[f] = ResultParent[f]

C15_Witness ==
  /\ found.op = "findMatchingAlert"
  /\ found.result._variation_id = "v1"
  /\ found.result.message_template = "{username} cheered BIG!"
  /\ found.result.sound_volume = "0.8"
  /\ found.result.duration_ms = 3000

PostedInstance ==
  IF currentAlert.id = ret THEN currentAlert
  ELSE queue[CHOOSE i \in DOMAIN queue : queue[i].id = ret]

\* C17 as stated: a POST /api/test-alert for which the resolver returns
\* null enqueues no instance and emits nothing.
C17_Original ==
  [][(lastOp' = "POST /api/test-alert" /\ found'.result = NoRow) =>
       /\ ret' = 0
       /\ accepted' = accepted
       /\ UNCHANGED <<queue, currentAlert, emitted, wire>>]_vars

\* C17, amended: a POST /api/test-alert for which the resolver returns null
\* enqueues exactly one instance, built from the hardcoded defaults of the
\* type and the body's overrides; it is emitted at once when nothing is
\* current.
C17_DefaultsWhenUnmatched ==
  [][(lastOp' = "POST /api/test-alert" /\ found'.result = NoRow) =>
       /\ ret' # 0
       /\ Len(accepted') = Len(accepted) + 1
       /\ accepted'[Len(accepted')].id = ret'
       /\ PostedInstance'.type = found'.type
       /\ PostedInstance'.config.message_template = TEST_DEFAULTS[found'.type].message_template
       /\ PostedInstance'.config.duration_ms \in {TEST_DEFAULTS[found'.type].duration_ms, 2000}
       /\ IF currentAlert.id = 0
            THEN /\ currentAlert'.id = ret'
                 /\ wire'.source = "queue"
                 /\ wire'.payload = currentAlert'
                 /\ Len(emitted') = Len(emitted) + 1
            ELSE /\ Len(queue') = Len(queue) + 1
                 /\ UNCHANGED <<currentAlert, emitted, wire>>]_vars

C17_Witness ==
  /\ lastOp = "POST /api/test-alert"
  /\ found.result = NoRow
  /\ \E a \in db.alerts : a.type = found.type /\ a.enabled = 1 /\ C12_Below(a, found.data)
  /\ Len(emitted) = 1
  /\ currentAlert.id = ret

\* C18: when the resolver matched a variation for the posted event, the
\* alert:trigger payload carries in its config the variation's message
\* template and the matched variation's id as _variation_id.
C18_VariationInPayload ==
  (/\ lastOp = "POST /api/test-alert"
   /\ found.result._variation_id # Undefined
   /\ currentAlert.id = ret)
  => /\ wire.source = "queue"
     /\ wire.payload.id = ret
     /\ wire.payload.config.message_template = found.result.message_template
     /\ wire.payload.config._variation_id = found.result._variation_id

\* ------------------------------------------------------------------------
\* C19: a PUT or a DELETE of a built-in template answers 403 and leaves the
\* table as it was, so that a read of the row returns the row the migration
\* inserted; after every step of the template routes the built-in rows are
\* the rows the migration inserted
\* ------------------------------------------------------------------------

BuiltinRows(rows) == {r \in rows : r.is_builtin # 0}

C19_BuiltinForbidden ==
  [][/\ \A id \in BuiltinIds :
          (/\ response'.id = id
           /\ \/ \E body \in UpdateBodies, now \in Times : PutTemplate(id, body, now)
              \/ DeleteTemplate(id))
          => /\ response'.status = 403
             /\ response'.error \in {"Cannot update built-in templates",
                                    "Cannot delete built-in templates"}
             /\ templates' = templates
             /\ getTemplateById(templates', id) = getTemplateById(BuiltinTemplates, id)
     /\ BuiltinRows(templates') = BuiltinTemplates]_vars

\* a PUT of a built-in template was refused while a user template exists
C19_Witness ==
  /\ response.op = "PUT"
  /\ response.id \in BuiltinIds
  /\ response.status = 403
  /\ \E r \in templates : r.is_builtin = 0 /\ r.name = "Renamed"

\* ------------------------------------------------------------------------
\* C20: deleteAlert(id) removes the alert with the id and exactly the
\* variations of that parent, leaves every other row as it was, and for an
\* id no alert has changes nothing and returns false
\* ------------------------------------------------------------------------

C20_DeleteCascade ==
  [][\A id \in DeleteIds :
       DeleteAlert(id)
       => /\ db'.alerts = {a \in db.alerts : a.id # id}
          /\ db'.variations = {v \in db.variations : v.parent_alert_id # id}
          /\ found'.changed = (\E a \in db.alerts : a.id = id)
          /\ (~ \E a \in db.alerts : a.id = id) => db' = db]_vars

\* a1 was deleted with its variation v1, and a2 remains with its variation v2
C20_Witness ==
  /\ found.op = "deleteAlert"
  /\ found.id = "a1"
  /\ found.changed
  /\ {a.id : a \in db.alerts} = {"a2"}
  /\ {v.id : v \in db.variations} = {"v2"}

\* ------------------------------------------------------------------------
\* C21: over any number of calls of runMigrations on one directory, a
\* script recorded in _migrations before a call is not executed by it, no
\* script is executed with success twice, every script executed with
\* success is recorded exactly once and committed exactly once, and a call
\* that returns leaves every script of the directory recorded
\* ------------------------------------------------------------------------

\* the scripts the call run executed with success
Succeeded(run) ==
  {run.executed[i].filename : i \in {j \in DOMAIN run.executed : run.executed[j].ok}}

\* the number of places of the sequence seq that hold x
Count(seq, x) == Cardinality({i \in DOMAIN seq : seq[i] = x})

RecordedNames == [i \in DOMAIN migrations |-> migrations[i].filename]

C21_MigrationIdempotence ==
  /\ \A k \in DOMAIN migrationRuns :
       /\ \A i \in DOMAIN migrationRuns[k].executed :
            migrationRuns[k].executed[i].filename \notin migrationRuns[k].applied
       /\ \A j \in DOMAIN migrationRuns :
            j # k => Succeeded(migrationRuns[j]) \cap Succeeded(migrationRuns[k]) = {}
       /\ \A f \in Succeeded(migrationRuns[k]) :
            Count(RecordedNames, f) = 1 /\ Count(schema, f) = 1
       /\ \A f \in SqlFiles :
            Cardinality({i \in DOMAIN migrationRuns[k].executed :
                           migrationRuns[k].executed[i].filename = f}) <= 1
       /\ ~migrationRuns[k].threw
            => migrationRuns[k].applied \cup Succeeded(migrationRuns[k]) = SqlFiles
  /\ \A f \in SqlFiles : Count(RecordedNames, f) <= 1 /\ Count(schema, f) = Count(RecordedNames, f)

\* the routine ran three times: the first call applied every script, the
\* later ones executed none
C21_Witness ==
  /\ Len(migrationRuns) >= 3
  /\ Succeeded(migrationRuns[1]) = SqlFiles
  /\ migrationRuns[2].executed = <<>>
  /\ migrationRuns[3].executed = <<>>
  /\ {migrations[i].filename : i \in DOMAIN migrations} = SqlFiles

\* ------------------------------------------------------------------------
\* C22: a call of runMigrations executes the pending scripts in the order
\* of their file names, up to the first that fails; the failing script is
\* neither committed nor recorded, the call throws, no later script is
\* executed, and foreign_keys is on after the call
\* ------------------------------------------------------------------------

\* the pending scripts of a call, in the order of their file names
Pending(applied) ==
  LET sql == SqlFiles \ applied
  IN  Sorted(sql, {<<f, g>> \in sql \X sql : f.prefix < g.prefix})

C22_FailureRollsBack ==
  [][migrationRuns' # migrationRuns
       => LET run == migrationRuns'[Len(migrationRuns')]
              pending == Pending({migrations[i].filename : i \in DOMAIN migrations})
              n == Len(run.executed)
              ok == Cardinality(Succeeded(run))
          IN  /\ n <= Len(pending)
              /\ \A i \in 1..n :
                   /\ run.executed[i].filename = pending[i]
                   /\ i < n => run.executed[i].ok
              /\ run.threw = (n > 0 /\ ~run.executed[n].ok)
              /\ ~run.threw => n = Len(pending)
              /\ ok = IF run.threw THEN n - 1 ELSE n
              /\ \E now \in Times :
                   migrations' = migrations \o
                     [i \in 1..ok |-> [filename |-> pending[i], applied_at |-> now]]
              /\ schema' = schema \o [i \in 1..ok |-> pending[i]]
              /\ foreignKeys']_vars

\* a call applied the first script, failed in the second and left the third
\* unexecuted
C22_Witness ==
  /\ Len(migrationRuns) >= 1
  /\ migrationRuns[1].threw
  /\ Len(migrationRuns[1].executed) = 2
  /\ migrationRuns[1].executed[1].ok
  /\ ~migrationRuns[1].executed[2].ok
  /\ Len(migrations) = 1
  /\ schema = <<DirEntry(3, "event_log", "sql")>>
  /\ foreignKeys

\* ------------------------------------------------------------------------
\* C23: after runMigrations failed during initDatabase, the server binds no
\* port, writes no SERVER_PORT line and accepts no connection
\* ------------------------------------------------------------------------

\* the indices of the SERVER_PORT lines of standard output
PortLines == {i \in DOMAIN stdout : stdout[i].text = "SERVER_PORT="}

C23_MigrationFailureFatal ==
  (Len(migrationRuns) > 0 /\ migrationRuns[Len(migrationRuns)].threw)
    => /\ pc \notin {"running", "shutdown"}
       /\ serverPort = 0
       /\ PortLines = {}
       /\ \A ns \in Namespaces : connected[ns] = {}

\* ------------------------------------------------------------------------
\* C24: in every state of the hub, clientCounts of each namespace is the
\* number of its connected sockets and is not negative, and the body of
\* GET /api/ws/status has totalClients equal to the sum of its clients
\* ------------------------------------------------------------------------

\* the sum of the values of counts
SumOfCounts(counts) ==
  Cardinality({e \in Namespaces \X (1..Cardinality(HubClients)) : e[2] <= counts[e[1]]})

C24_ClientCount ==
  /\ \A ns \in Namespaces :
       clientCounts[ns] = Cardinality(connected[ns]) /\ clientCounts[ns] >= 0
  /\ wsStatus.totalClients = SumOfCounts(wsStatus.clients)

\* the status reported three clients, and two of them disconnected since
C24_Witness ==
  /\ wsStatus.totalClients = 3
  /\ wsStatus.clients["/alerts"] = 2
  /\ SumOfCounts(clientCounts) = 1
  /\ connected["/alerts"] = {}

\* ------------------------------------------------------------------------
\* C25: when a handler of namespaceEvents throws for a client's message,
\* the process keeps running and the client stays connected
\* ------------------------------------------------------------------------

C25_HandlerExceptionCaught ==
  [][\A h \in namespaceEvents, c \in OverlayClients, data \in ClientData :
       ClientMessage(h, c, data, TRUE)
       => /\ pc' = "running"
          /\ exitCode' = -1
          /\ c \in connected'[h.namespace]]_vars

\* ------------------------------------------------------------------------
\* C26: findAvailablePort tests the default port first and once, then the
\* other ports of the range in ascending order; it returns the first port
\* it found free, and 0 when it found every port busy
\* ------------------------------------------------------------------------

C26_PortDiscovery ==
  pc \in {"listen", "running", "shutdown", "exited"}
    => LET n == Len(probes)
       IN  /\ n >= 1
           /\ probes[1].port = DefaultPort
           /\ \A i \in 2..n :
                /\ probes[i].port # DefaultPort
                /\ probes[i].port \in RangePorts
                /\ i > 2 => probes[i - 1].port < probes[i].port
           /\ \A i \in 1..(n - 1) : ~probes[i].free
           /\ port # 0
                => /\ probes[n] = [port |-> port, free |-> TRUE]
                   /\ {probes[i].port : i \in 2..(n - 1)}
                        = {q \in RangePorts : q < port /\ q # DefaultPort}
           /\ port = 0
                => /\ ~probes[n].free
                   /\ {probes[i].port : i \in 1..n} = RangePorts \cup {DefaultPort}

\* the default port and the next were found busy, and the server runs on
\* the last port of the range
C26_Witness ==
  /\ pc = "running"
  /\ Len(probes) = PortSpan + 1
  /\ ~probes[1].free
  /\ serverPort = PortRangeMax

\* ------------------------------------------------------------------------
\* C27: standard output holds one SERVER_PORT line once the server is
\* bound and none before, the line carries the bound port, and it is the
\* first line of standard output
\* ------------------------------------------------------------------------

C27_PortLineFirst ==
  /\ pc \in {"running", "shutdown"} => Cardinality(PortLines) = 1
  /\ serverPort = 0 => PortLines = {}
  /\ \A i \in PortLines : stdout[i].port = serverPort /\ i = 1

\* ------------------------------------------------------------------------
\* C28: a shutdown stops the HTTP server first, then closes the database,
\* then closes the sockets, and a force-exit timer is pending until the
\* process exits
\* ------------------------------------------------------------------------

C28_ShutdownOrder ==
  /\ pc = "shutdown" => forceTimers > 0
  /\ shutdownSteps # <<>>
       => /\ {shutdownSteps[i] : i \in DOMAIN shutdownSteps}
               = {"closeHttp", "closeDatabase", "closeSockets"}
          /\ Pos(shutdownSteps, "closeHttp") < Pos(shutdownSteps, "closeDatabase")
          /\ Pos(shutdownSteps, "closeDatabase") < Pos(shutdownSteps, "closeSockets")

\* ------------------------------------------------------------------------
\* C29: for every alert:trigger the queue emitted on /alerts, logEvent was
\* called for the instance's event before
\* ------------------------------------------------------------------------

C29_LoggedBeforeDispatch ==
  \A i \in DOMAIN emitted :
    \E a \in logAttempts :
      /\ a.event_type = emitted[i].payload.type
      /\ a.username = emitted[i].payload.username

\* ------------------------------------------------------------------------
\* C30: no call of the logger throws; when the store operation of a call
\* fails, logEvent returns null, getRecentEvents and getEventsByDateRange
\* return [], pruneOldEvents returns 0, and event_log is as it was
\* ------------------------------------------------------------------------

C30_LoggerNeverThrows ==
  [][(logResult' # logResult \/ eventLog' # eventLog)
       => /\ ~logResult'.threw
          /\ (logResult'.failed \/ ~StoreReady(dbOpen, schema))
               => /\ eventLog' = eventLog
                  /\ logResult'.row = NoEventRow
                  /\ logResult'.list = <<>>
                  /\ logResult'.deleted = 0]_vars

\* logEvent failed on the closed database, which holds a row logged before
C30_Witness ==
  /\ logResult.op = "logEvent"
  /\ logResult.failed
  /\ logResult.row = NoEventRow
  /\ ~dbOpen
  /\ eventLog # {}

\* ------------------------------------------------------------------------
\* C31: a read, update or delete of a template addressed to an id no row
\* has is answered with status 404 and changes no row
\* ------------------------------------------------------------------------

C31_UnknownIdNotFound ==
  [][(/\ response' # response
      /\ response'.op \in {"GET", "PUT", "DELETE"}
      /\ response'.id \notin {r.id : r \in templates})
       => /\ response'.status = 404
          /\ templates' = templates]_vars

\* ------------------------------------------------------------------------
\* C32: between operations, isProcessing holds exactly when there is a
\* current alert and exactly when the fallback timer is armed, and an idle
\* queue holds no pending alert
\* ------------------------------------------------------------------------

C32_QueueStateInvariant ==
  /\ isProcessing <=> currentAlert # NoAlert
  /\ isProcessing <=> (fallbackTimer # 0 /\ \E t \in timers : t.handle = fallbackTimer)
  /\ ~isProcessing => (queue = <<>> /\ timers = {})

\* enqueueAlert on the queue that went idle after a completion made the
\* accepted alert current before it returned
C32_Witness ==
  /\ lastOp = "enqueueAlert"
  /\ ret # 0
  /\ Len(completed) >= 1
  /\ currentAlert.id = ret
  /\ isProcessing
  /\ queue = <<>>

\* ------------------------------------------------------------------------
\* C33: an ack for instance X, sent as {alertId: X} or as {id: X} after the
\* fallback timer completed X, leaves the current instance Y current with
\* its timer armed
\* ------------------------------------------------------------------------

C33_LateAckKeepsCurrent ==
  [][\A data \in AckPayloads :
       LET X == IF data.alertId # 0 THEN data.alertId ELSE data.id
       IN  (/\ lastOp' = "onAlertDone"
            /\ OnAlertDone(data)
            /\ X # 0
            /\ \E i \in DOMAIN completed :
                 completed[i].id = X /\ completed[i].by = "timeout"
            /\ currentAlert.id \notin {0, X})
           => /\ currentAlert' = currentAlert
              /\ isProcessing' = isProcessing
              /\ fallbackTimer' = fallbackTimer
              /\ timers' = timers
              /\ completed' = completed]_vars

\* ------------------------------------------------------------------------
\* C34: shutdown cancels the queue's armed fallback timer: once shutdown has
\* begun no timer is pending, and no step completes an alert, advances the
\* queue or emits alert:trigger
\* ------------------------------------------------------------------------

C34_ShutdownCancelsTimer ==
  [][/\ pc' = "shutdown" => timers' = {}
     /\ pc = "shutdown" => /\ completed' = completed
                           /\ currentAlert' = currentAlert
                           /\ queue' = queue
                           /\ emitted' = emitted]_vars

\* ------------------------------------------------------------------------
\* C35: an amount variation matches exactly when the event carries an
\* amount (neither undefined nor null) and its number is at least the
\* number of condition_value; a variation whose condition_type is none of
\* tier, amount and custom never matches
\* ------------------------------------------------------------------------

C35_AmountVariation ==
  matchCall.called =>
    LET v == matchCall.variation
        d == matchCall.eventData
    IN  /\ v.condition_type = "amount" =>
             (matchCall.result <=>
                /\ d.amount \notin {AmountUndefined, AmountNull}
                /\ d.amount >= NumberOfText(v.condition_value))
        /\ v.condition_type \notin {"tier", "amount", "custom"} => ~matchCall.result

\* ------------------------------------------------------------------------
\* C36: the type of an alert is immutable: no step changes the stored type
\* of an alert that exists before and after it
\* ------------------------------------------------------------------------

C36_TypeImmutable ==
  [][\A a \in db.alerts, b \in db'.alerts : a.id = b.id => a.type = b.type]_vars

\* ------------------------------------------------------------------------
\* C37: every variation row references an existing alert;
\* createAlertVariation with a parent_alert_id no alert has throws 'Parent
\* alert not found' and inserts nothing; no step changes the parent of a
\* variation; deleting an alert deletes its variations
\* ------------------------------------------------------------------------

C37_ReferentialIntegrity ==
  /\ [](\A v \in db.variations : \E a \in db.alerts : a.id = v.parent_alert_id)
  /\ [][/\ (found' # found /\ found'.op = "createAlertVariation"
              /\ found'.parent = NoRow)
           => /\ found'.threw = "Parent alert not found"
              /\ db' = db
        /\ \A v \in db.variations, w \in db'.variations :
             v.id = w.id => v.parent_alert_id = w.parent_alert_id
        /\ (found' # found /\ found'.op = "deleteAlert" /\ found'.changed)
           => \A v \in db'.variations : v.parent_alert_id # found'.id]_vars

\* createAlertVariation refused a variation whose parent_alert_id no alert
\* has, on a database that holds alerts and variations
C37_Witness ==
  /\ found.op = "createAlertVariation"
  /\ found.parent = NoRow
  /\ found.threw = "Parent alert not found"
  /\ Cardinality(db.alerts) = 2
  /\ Cardinality(db.variations) = 1

\* ------------------------------------------------------------------------
\* C38: a prune with cutoff c deletes exactly the rows of event_log with
\* timestamp < c, keeps the rows with timestamp >= c, returns the number of
\* rows it deleted, and a second prune with the same cutoff deletes nothing
\* and returns 0
\* ------------------------------------------------------------------------

C38_PruneCutoff ==
  [][\A now \in PruneTimes :
       (PruneOldEvents(now) /\ StoreReady(dbOpen, schema))
       => LET cutoff == sevenDaysAgo(now)
              again == deleteEventLogsBefore(eventLog', TRUE, cutoff)
          IN  /\ eventLog' = {r \in eventLog :
                                TimeRank(r.timestamp) >= TimeRank(cutoff)}
              /\ logResult'.deleted = Cardinality(eventLog \ eventLog')
              /\ again.rows = eventLog'
              /\ again.deleted = 0]_vars

\* a prune deleted one row and kept a row whose timestamp is the cutoff
C38_Witness ==
  /\ logResult.op = "pruneOldEvents"
  /\ ~logResult.failed
  /\ logResult.deleted = 1
  /\ \E r \in eventLog : r.timestamp = sevenDaysAgo("2024-01-10T00:00:00.000Z")

\* ------------------------------------------------------------------------
\* C39: a list query returns at most min(limit, 1000) rows (no row for a
\* negative limit), limit being 100 when none is given, at getRecentEvents
\* and at GET /api/events
\* ------------------------------------------------------------------------

C39_Bound(limit) == IF limit < 0 THEN 0 ELSE IF limit < 1000 THEN limit ELSE 1000

C39_ListLimit ==
  [][/\ \A options \in ListOptions, scan \in Perms(EventIds) :
          GetRecentEvents(options, scan)
          => LET limit == IF options.limit = 0 THEN 100 ELSE options.limit
             IN  Len(logResult'.list) <= C39_Bound(limit)
     /\ \A parsed \in QueryLimits, scan \in Perms(EventIds) :
          GetApiEvents(parsed, scan)
          => LET limit == IF parsed = 0 THEN 100 ELSE parsed
             IN  Len(logResult'.list) <= C39_Bound(limit)]_vars

\* C40: a config:changed message, with its payload, from a /dashboard
\* client makes the hub emit exactly one message: config:changed with the
\* same payload to the sockets of /widgets; nothing is emitted to
\* /dashboard, and no client count changes
C40_DashboardConfigForwarded ==
  [][\A h \in namespaceEvents, c \in OverlayClients,
        data \in ClientData \ {"callback"}, throws \in BOOLEAN :
       (/\ h.namespace = "/dashboard"
        /\ h.event = "config:changed"
        /\ ClientMessage(h, c, data, throws))
         => /\ broadcast' = <<HubMessage("/widgets", "config:changed", data)>>
            /\ \A i \in 1..Len(broadcast') :
                 broadcast'[i].namespace # "/dashboard"
            /\ clientCounts' = clientCounts]_vars

\* a /dashboard client sent config:changed with a string while a widget
\* was connected, and the hub emitted it to /widgets
C40_Witness ==
  /\ received = HubMessage("/dashboard", "config:changed", "string")
  /\ broadcast = <<HubMessage("/widgets", "config:changed", "string")>>
  /\ clientCounts["/dashboard"] = 1
  /\ clientCounts["/widgets"] = 1

====
